---- MODULE Spec2Model ----
(***************************************************************************)
(* PostgreSQL DDL translators of dswbx/postgres-sqlite-parsing:            *)
(*   convert()            poc-json-schema: PG AST -> JSON-Schema document  *)
(*   deparse()            poc-deparser:    PG AST -> SQLite DDL            *)
(*   jsonSchemaToSqlite() poc-json-schema: JSON-Schema document -> DDL     *)
(*                                                                         *)
(* JavaScript values are modelled as follows.                              *)
(*   object        function from key strings to values; a key that is not  *)
(*                 set is not in the DOMAIN                                *)
(*   array         sequence                                                *)
(*   object used as an insertion-ordered map (schema.properties, Map)      *)
(*                 sequence of [key, val] entries (OPut / OGet)            *)
(*   `any` scalar  tagged record [num |-> 5], [str |-> "a"], [bool |-> T]  *)
(*   a dotted name ("public.mood") the sequence of its parts               *)
(*   emitted text  sequence of tokens                                      *)
(***************************************************************************)
EXTENDS Integers, Sequences, FiniteSets, TLC

VARIABLES
    ast,       \* the parsed document handed to the translators
    schema,    \* the JSON-Schema document (result of convert, or a caller's)
    sqlite,    \* result of deparse(ast)
    ddl,       \* result of jsonSchemaToSqlite(schema)
    firstDdl,  \* history: the rendering that was parsed back into ast
    done,      \* which calls have completed on the current input
    typeTable, \* the module-level object TYPE_MAP of type-map.ts, as it is now
    calls,     \* how many documents the process has been handed
    seen,      \* history: the earlier documents and what they were translated to
    kysely,    \* result of poc-kysely's translate(ast)
    \* the debugger's OutputPanel component
    inputSql,          \* the prop `sql`
    tab,               \* useState<Tab>
    tabStates,         \* useState<Record<Tab, TabState>>
    loading,           \* useState(false)
    sqliteFromSchema,  \* useState("")
    inflight,          \* the calls of generate() that have not settled
    settled            \* history: the call that settled last, and the tab then selected

translatorVars == <<ast, schema, sqlite, ddl, firstDdl, done, typeTable, calls, seen, kysely>>
panelVars == <<inputSql, tab, tabStates, loading, sqliteFromSchema, inflight, settled>>
vars == <<translatorVars, panelVars>>

----------------------------------------------------------------------------
(* Bounds *)

MaxConstraints == 2     \* inline constraints per column
MaxArrayDepth == 2      \* array dimensions of a column type
MaxColumns == 2         \* columns per table in the multi-column documents
MaxCallStack == 6       \* frames the engine allows resolveType to nest
MaxCalls == 3           \* documents one process translates in a row

----------------------------------------------------------------------------
(* JavaScript helpers *)

Null == [null |-> TRUE]
Undefined == [undefined |-> TRUE]
JsNum(n) == [num |-> n]
JsStr(s) == [str |-> s]
JsBool(b) == [bool |-> b]
IsNum(v) == DOMAIN v = {"num"}
IsStr(v) == DOMAIN v = {"str"}

Has(obj, k) == k \in DOMAIN obj
Del(obj, k) == [j \in DOMAIN obj \ {k} |-> obj[j]]
Put(obj, k, v) == (k :> v) @@ obj
\* Object.assign(target, source)
Assign(target, source) == source @@ target

\* insertion-ordered maps
OKeys(m) == {m[i].key : i \in DOMAIN m}
OHas(m, k) == k \in OKeys(m)
OGet(m, k) == m[CHOOSE i \in DOMAIN m : m[i].key = k].val
OPut(m, k, v) ==
    IF OHas(m, k)
    THEN [i \in DOMAIN m |-> IF m[i].key = k THEN [key |-> k, val |-> v] ELSE m[i]]
    ELSE Append(m, [key |-> k, val |-> v])

Last(s) == s[Len(s)]

RECURSIVE Flatten(_)
Flatten(seqs) == IF Len(seqs) = 0 THEN <<>> ELSE Head(seqs) \o Flatten(Tail(seqs))
SeqSet(s) == {s[i] : i \in DOMAIN s}

\* String.prototype.toLowerCase on the identifiers of the model
toLowerCase(s) ==
    CASE s = "Mood" -> "mood"
      [] s = "MOOD" -> "mood"
      [] s = "A" -> "a"
      [] OTHER -> s
LowerParts(parts) == [i \in DOMAIN parts |-> toLowerCase(parts[i])]

\* Array.prototype.join('.') of name parts
RECURSIVE JoinDot(_)
JoinDot(parts) ==
    IF Len(parts) = 0 THEN ""
    ELSE IF Len(parts) = 1 THEN parts[1]
    ELSE parts[1] \o "." \o JoinDot(Tail(parts))

----------------------------------------------------------------------------
(* poc-json-schema/src/type-map.ts *)

TYPE_MAP ==
    ("double precision" :> [type |-> "number"]) @@
    [ varchar |-> [type |-> "string"],
      char |-> [type |-> "string"],
      text |-> [type |-> "string"],
      bpchar |-> [type |-> "string"],
      int2 |-> [type |-> "integer"],
      int4 |-> [type |-> "integer"],
      int8 |-> [type |-> "integer"],
      smallint |-> [type |-> "integer"],
      integer |-> [type |-> "integer"],
      bigint |-> [type |-> "integer"],
      serial |-> [type |-> "integer"],
      bigserial |-> [type |-> "integer"],
      numeric |-> [type |-> "number"],
      decimal |-> [type |-> "number"],
      real |-> [type |-> "number"],
      float4 |-> [type |-> "number"],
      float8 |-> [type |-> "number"],
      bool |-> [type |-> "boolean"],
      boolean |-> [type |-> "boolean"],
      timestamp |-> [type |-> "string", format |-> "date-time"],
      timestamptz |-> [type |-> "string", format |-> "date-time"],
      date |-> [type |-> "string", format |-> "date"],
      time |-> [type |-> "string", format |-> "time"],
      timetz |-> [type |-> "string", format |-> "time"],
      uuid |-> [type |-> "string", format |-> "uuid"],
      bytea |-> [type |-> "string", format |-> "binary"],
      json |-> [type |-> "object"],
      jsonb |-> [type |-> "object"] ]

\* a type modifier is modelled by the integer of its A_Const node; 0 stands
\* for a modifier that is absent or carries no integer (undefined)
extractIntVal(typmods, i) ==
    IF i \in DOMAIN typmods THEN typmods[i] ELSE 0

RECURSIVE WrapArray(_, _)
WrapArray(result, n) ==
    IF n = 0 THEN result
    ELSE WrapArray([type |-> "array", items |-> result], n - 1)

\* mapType's `base` after the maxLength / multipleOf writes, table being
\* the TYPE_MAP object the call finds
mapTypeBase(table, pgType, typmods) ==
    LET normalized == toLowerCase(pgType)
        base0 == IF normalized \in DOMAIN table
                 THEN table[normalized] ELSE [type |-> "string"]
        len == extractIntVal(typmods, 1)
        base1 == IF /\ normalized \in {"varchar", "char"}
                    /\ Len(typmods) >= 1
                    /\ len > 0
                 THEN Put(base0, "maxLength", len) ELSE base0
        scale == extractIntVal(typmods, 2)
        base == IF /\ normalized \in {"numeric", "decimal"}
                   /\ Len(typmods) = 2
                   /\ scale > 0
                \* Math.pow(10, -scale), kept as its exponent
                THEN Put(base1, "multipleOf", [pow10 |-> 0 - scale]) ELSE base1
    IN  base

mapType(pgType, typmods, arrayBounds) ==
    IF Len(arrayBounds) > 0
    THEN WrapArray(mapTypeBase(typeTable, pgType, typmods), Len(arrayBounds))
    ELSE mapTypeBase(typeTable, pgType, typmods)

\* TYPE_MAP after the writes to a `base` that is the table's own entry, not
\* a copy of it (`let base = TYPE_MAP[normalized]`): the faulty variant that
\* C20 detects
StoreBaseAliased(table, normalized, base) ==
    IF normalized \in DOMAIN table THEN [table EXCEPT ![normalized] = base] ELSE table

\* TYPE_MAP after the writes to `base`: base is the copy
\* `{ ...TYPE_MAP[normalized] }`, the table keeps its entries
StoreBase(table, normalized, base) == table

\* TYPE_MAP after the calls of mapType for cols[i], cols[i + 1], ...
RECURSIVE TableAfter(_, _, _)
TableAfter(table, cols, i) ==
    IF i > Len(cols) THEN table
    ELSE TableAfter(StoreBase(table, toLowerCase(cols[i].pgType),
                              mapTypeBase(table, cols[i].pgType, cols[i].typmods)),
                    cols, i + 1)

\* typeName.names is the sequence of the String nodes' sval
\* (typeName is Undefined when the column has none)
extractTypeName(typeName) ==
    LET names == SelectSeq(typeName.names, LAMBDA n : n # "")
    IN  IF ~Has(typeName, "names") THEN "text"
        ELSE IF Len(names) = 0 THEN "text" ELSE Last(names)

----------------------------------------------------------------------------
(* poc-json-schema/src/check-analyzer.ts                                   *)
(* An operator name or column name that is null is modelled by "".         *)

unwrapExpr(expr) ==
    IF Has(expr, "A_Expr") THEN expr.A_Expr
    ELSE IF Has(expr, "BoolExpr") THEN expr.BoolExpr
    ELSE IF Has(expr, "List") THEN expr.List.items
    ELSE expr

unwrapBoolArgs(expr) ==
    IF Has(expr, "boolop") /\ Has(expr, "args")
    THEN [i \in DOMAIN expr.args |-> unwrapExpr(expr.args[i])]
    ELSE <<>>

extractColumnRef(node) ==
    IF Has(node, "ColumnRef") /\ Len(node.ColumnRef.fields) > 0
    THEN node.ColumnRef.fields[1]
    ELSE ""

extractConstValue(node) ==
    IF Has(node, "A_Const")
    THEN LET c == node.A_Const
         IN  IF Has(c, "ival")
             THEN (IF Has(c.ival, "ival") THEN JsNum(c.ival.ival) ELSE JsNum(0))
             ELSE IF Has(c, "sval") /\ Has(c.sval, "sval") THEN JsStr(c.sval.sval)
             ELSE IF Has(c, "boolval") /\ Has(c.boolval, "boolval")
                  THEN JsBool(c.boolval.boolval)
             ELSE Null
    ELSE Null

getOperatorName(expr) ==
    IF Has(expr, "name") /\ Len(expr.name) > 0 /\ expr.name[1] # ""
    THEN expr.name[1]
    ELSE IF Has(expr, "kind") THEN expr.kind ELSE ""

isRangeCheck(expr0, colName) ==
    LET expr == unwrapExpr(expr0)
        op == getOperatorName(expr)
    IN  IF op \in {">=", "<=", ">", "<"}
        THEN extractColumnRef(expr.lexpr) = colName
        ELSE Has(expr, "boolop") /\ expr.boolop = "AND_EXPR"

\* the first argument of an AND whose operator is in ops and whose right
\* side is a number, as [op, val]; Undefined when there is none
RECURSIVE FirstBound(_, _, _)
FirstBound(args, i, ops) ==
    IF i > Len(args) THEN Undefined
    ELSE LET argOp == getOperatorName(args[i])
             val == IF argOp \in ops THEN extractConstValue(args[i].rexpr) ELSE Null
         IN  IF argOp \in ops /\ IsNum(val)
             THEN [op |-> argOp, val |-> val.num]
             ELSE FirstBound(args, i + 1, ops)

extractMin(expr0) ==
    LET expr == unwrapExpr(expr0)
        op == getOperatorName(expr)
        val == IF op \in {">=", ">"} THEN extractConstValue(expr.rexpr) ELSE Null
        found == IF Has(expr, "boolop") /\ expr.boolop = "AND_EXPR"
                 THEN FirstBound(unwrapBoolArgs(expr), 1, {">=", ">"})
                 ELSE Undefined
    IN  IF op \in {">=", ">"} /\ IsNum(val)
        THEN JsNum(IF op = ">" THEN val.num + 1 ELSE val.num)
        ELSE IF found # Undefined
        THEN JsNum(IF found.op = ">" THEN found.val + 1 ELSE found.val)
        ELSE Undefined

extractMax(expr0) ==
    LET expr == unwrapExpr(expr0)
        op == getOperatorName(expr)
        val == IF op \in {"<=", "<"} THEN extractConstValue(expr.rexpr) ELSE Null
        found == IF Has(expr, "boolop") /\ expr.boolop = "AND_EXPR"
                 THEN FirstBound(unwrapBoolArgs(expr), 1, {"<=", "<"})
                 ELSE Undefined
    IN  IF op \in {"<=", "<"} /\ IsNum(val)
        THEN JsNum(IF op = "<" THEN val.num - 1 ELSE val.num)
        ELSE IF found # Undefined
        THEN JsNum(IF found.op = "<" THEN found.val - 1 ELSE found.val)
        ELSE Undefined

isEnumCheck(expr0, colName) ==
    LET expr == unwrapExpr(expr0)
    IN  IF Has(expr, "kind") /\ expr.kind = "AEXPR_IN" /\ Has(expr.rexpr, "List")
        THEN extractColumnRef(expr.lexpr) = colName
        ELSE Has(expr, "boolop") /\ expr.boolop = "OR_EXPR"

\* the constants of items, nulls left out
ConstValues(items) ==
    LET vals == [i \in DOMAIN items |-> extractConstValue(items[i])]
    IN  SelectSeq(vals, LAMBDA v : v # Null)

\* the right-hand constants of the `=` arguments of an OR chain
OrValues(args) ==
    LET vals == [i \in DOMAIN args |->
                   LET unwrapped == unwrapExpr(args[i])
                   IN  IF getOperatorName(unwrapped) = "="
                       THEN extractConstValue(unwrapped.rexpr) ELSE Null]
    IN  SelectSeq(vals, LAMBDA v : v # Null)

extractValues(expr0) ==
    LET expr == unwrapExpr(expr0)
        inVals == IF /\ Has(expr, "kind") /\ expr.kind = "AEXPR_IN"
                     /\ Has(expr.rexpr, "List")
                  THEN ConstValues(expr.rexpr.List.items) ELSE <<>>
        orVals == IF Has(expr, "boolop") /\ expr.boolop = "OR_EXPR" /\ Has(expr, "args")
                  THEN OrValues(expr.args) ELSE <<>>
    IN  inVals \o orVals

isPatternCheck(expr0, colName) ==
    LET expr == unwrapExpr(expr0)
    IN  getOperatorName(expr) = "~" /\ extractColumnRef(expr.lexpr) = colName

extractPattern(expr0) ==
    LET expr == unwrapExpr(expr0)
        pattern == IF getOperatorName(expr) = "~"
                   THEN extractConstValue(expr.rexpr) ELSE Null
    IN  IF IsStr(pattern) THEN pattern.str ELSE ""

\* ValidationRules, or Null
analyzeCheck(expr, colName) ==
    LET min == extractMin(expr)
        max == extractMax(expr)
        r1 == IF min # Undefined THEN [minimum |-> min.num] ELSE <<>>
        rules == IF max # Undefined THEN Put(r1, "maximum", max.num) ELSE r1
        values == extractValues(expr)
        pattern == extractPattern(expr)
    IN  IF isRangeCheck(expr, colName) /\ DOMAIN rules # {}
        THEN rules
        ELSE IF isEnumCheck(expr, colName) /\ Len(values) > 0
        THEN [enum |-> values]
        ELSE IF isPatternCheck(expr, colName) /\ pattern # ""
        THEN [pattern |-> pattern]
        ELSE Null

----------------------------------------------------------------------------
(* poc-json-schema/src/converter.ts *)

opMap ==
    [ SVFOP_CURRENT_DATE |-> "CURRENT_DATE",
      SVFOP_CURRENT_TIME |-> "CURRENT_TIME",
      SVFOP_CURRENT_TIME_N |-> "CURRENT_TIME",
      SVFOP_CURRENT_TIMESTAMP |-> "CURRENT_TIMESTAMP",
      SVFOP_CURRENT_TIMESTAMP_N |-> "CURRENT_TIMESTAMP",
      SVFOP_LOCALTIME |-> "LOCALTIME",
      SVFOP_LOCALTIME_N |-> "LOCALTIME",
      SVFOP_LOCALTIMESTAMP |-> "LOCALTIMESTAMP",
      SVFOP_LOCALTIMESTAMP_N |-> "LOCALTIMESTAMP",
      SVFOP_CURRENT_ROLE |-> "CURRENT_ROLE",
      SVFOP_CURRENT_USER |-> "CURRENT_USER",
      SVFOP_USER |-> "USER",
      SVFOP_SESSION_USER |-> "SESSION_USER",
      SVFOP_CURRENT_CATALOG |-> "CURRENT_CATALOG",
      SVFOP_CURRENT_SCHEMA |-> "CURRENT_SCHEMA" ]

serializeDefaultExpr(expr) ==
    IF Has(expr, "FuncCall")
    THEN LET funcName == JoinDot(SelectSeq(expr.FuncCall.funcname, LAMBDA n : n # ""))
         IN  IF ~Has(expr.FuncCall, "args") \/ Len(expr.FuncCall.args) = 0
             THEN funcName \o "()"
             ELSE funcName \o "(...)"
    ELSE IF Has(expr, "SQLValueFunction")
    THEN (IF expr.SQLValueFunction.op \in DOMAIN opMap
          THEN opMap[expr.SQLValueFunction.op] ELSE "SQL_FUNCTION")
    ELSE IF /\ Has(expr, "TypeCast")
            /\ Has(expr.TypeCast.arg, "A_Const")
            /\ Has(expr.TypeCast.arg.A_Const, "sval")
    THEN "'" \o expr.TypeCast.arg.A_Const.sval.sval \o "'::text"
    ELSE "EXPRESSION"

\* DefaultValue: an object with at most one of the keys simple, computed.
\* rawExpr is Undefined when the constraint has no raw_expr.
extractDefault(rawExpr) ==
    LET c == rawExpr.A_Const
        const ==
            IF ~Has(rawExpr, "A_Const") THEN Undefined
            ELSE IF Has(c, "ival")
            THEN (IF Has(c.ival, "ival") THEN JsNum(c.ival.ival) ELSE JsNum(0))
            ELSE IF Has(c, "sval") /\ Has(c.sval, "sval") THEN JsStr(c.sval.sval)
            ELSE IF Has(c, "boolval")
            THEN (IF Has(c.boolval, "boolval")
                  THEN JsBool(c.boolval.boolval) ELSE JsBool(FALSE))
            ELSE Undefined
    IN  IF rawExpr = Undefined THEN <<>>
        ELSE IF const # Undefined THEN [simple |-> const]
        ELSE [computed |-> serializeDefaultExpr(rawExpr)]

actionMap ==
    [ c |-> "cascade", n |-> "set null", d |-> "set default",
      r |-> "restrict", a |-> "no action" ]

\* the action's name; undefined (a code outside the table) is modelled by ""
\* mapFkAction with NO ACTION spelled in upper case: the faulty variant that
\* C3 detects
mapFkActionUpperCase(action) ==
    IF toLowerCase(action) = "a" THEN "NO ACTION"
    ELSE IF toLowerCase(action) \in DOMAIN actionMap
    THEN actionMap[toLowerCase(action)] ELSE ""

mapFkAction(action) ==
    IF toLowerCase(action) \in DOMAIN actionMap
    THEN actionMap[toLowerCase(action)] ELSE ""

\* ForeignKeyInfo; onDelete / onUpdate are set only when the code is present
extractForeignKey(constraint) ==
    LET fk0 == [ table |-> IF Has(constraint, "pktable")
                           THEN constraint.pktable.relname ELSE "",
                 column |-> IF Has(constraint, "pk_attrs") /\ Len(constraint.pk_attrs) > 0
                            THEN constraint.pk_attrs[1] ELSE "" ]
        fk1 == IF Has(constraint, "fk_del_action") /\ constraint.fk_del_action # ""
               THEN Put(fk0, "onDelete", mapFkAction(constraint.fk_del_action))
               ELSE fk0
    IN  IF Has(constraint, "fk_upd_action") /\ constraint.fk_upd_action # ""
        THEN Put(fk1, "onUpdate", mapFkAction(constraint.fk_upd_action))
        ELSE fk1

\* the schema a new PgToJsonSchemaConverter(enumRegistry) starts with
NewConverter(enumRegistry) ==
    LET base == ("$schema" :> "https://example.com/postgres-json-schema.json")
                @@ [type |-> "object", properties |-> <<>>]
    IN  IF Len(enumRegistry) > 0
        THEN Put(base, "$defs",
                 [i \in DOMAIN enumRegistry |->
                     [key |-> enumRegistry[i].key,
                      val |-> [type |-> "string", enum |-> enumRegistry[i].val]]])
        ELSE base

\* result[k] copied to prop when mapType's result has the key
CopyKey(prop, jsonType, k) ==
    IF Has(jsonType, k) THEN Put(prop, k, jsonType[k]) ELSE prop

\* the property a column of a type that is no registered enum starts from
TypedProp(jsonType) ==
    CopyKey(CopyKey(CopyKey(CopyKey([type |-> jsonType.type],
        jsonType, "format"), jsonType, "maxLength"), jsonType, "multipleOf"),
        jsonType, "items")

\* col.colname, col.typeName and col.typeName?.f; a missing colname is "",
\* a missing typeName is Undefined, a missing list is empty
ColName(col) == IF Has(col, "colname") THEN col.colname ELSE ""
TypeNameOf(col) == IF Has(col, "typeName") THEN col.typeName ELSE Undefined
TypeField(col, f) ==
    IF Has(col, "typeName") /\ Has(col.typeName, f) THEN col.typeName[f] ELSE <<>>

\* the key properties[name] writes: an undefined name is the key 'undefined'
PropertyKey(name) == IF name = "" THEN "undefined" ELSE name

\* the property addColumn starts from
InitialProp(enumRegistry, col) ==
    IF OHas(enumRegistry, extractTypeName(TypeNameOf(col)))
    THEN ("$ref" :> ("#/$defs/" \o extractTypeName(TypeNameOf(col))))
    ELSE TypedProp(mapType(extractTypeName(TypeNameOf(col)), TypeField(col, "typmods"),
                           TypeField(col, "arrayBounds")))

\* case 'CONSTR_CHECK'
CheckCase(st, validation, isEnumRef) ==
    IF ~isEnumRef /\ validation # Null
    THEN [st EXCEPT !.prop = Assign(st.prop, validation)]
    ELSE st

\* case 'CONSTR_DEFAULT'
DefaultCase(st, defaultValue) ==
    IF Has(defaultValue, "simple")
    THEN [st EXCEPT !.prop = Put(st.prop, "default", defaultValue.simple)]
    ELSE IF Has(defaultValue, "computed") /\ defaultValue.computed # ""
    THEN [st EXCEPT !.prop = Put(st.prop, "$default", defaultValue.computed)]
    ELSE st

\* prop[key] = action unless the action is undefined or 'no action'
ActionKey(prop, fk, field, key) ==
    IF Has(fk, field) /\ fk[field] # "" /\ fk[field] # "no action"
    THEN Put(prop, key, fk[field]) ELSE prop

\* case 'CONSTR_FOREIGN'
ForeignCase(st, fk) ==
    IF fk.table # "" /\ fk.column # ""
    THEN [st EXCEPT
            !.hasForeignKey = TRUE,
            !.prop = ActionKey(ActionKey(
                        ("$ref" :> ("#/properties/" \o fk.table \o "/properties/"
                                    \o fk.column)) @@ st.prop,
                        fk, "onDelete", "$onDelete"), fk, "onUpdate", "$onUpdate")]
    ELSE st

\* one turn of the switch over contype; st is [prop, isRequired,
\* isPrimaryKey, hasForeignKey]
ApplyConstraint(st, c, name, isEnumRef) ==
    CASE c.contype = "CONSTR_NOTNULL" -> [st EXCEPT !.isRequired = TRUE]
      [] c.contype = "CONSTR_PRIMARY" ->
            [st EXCEPT !.isPrimaryKey = TRUE,
                       !.prop = Put(st.prop, "$primaryKey", TRUE)]
      [] c.contype = "CONSTR_UNIQUE" ->
            [st EXCEPT !.prop = Put(st.prop, "$index", JsStr("unique"))]
      [] c.contype = "CONSTR_CHECK" ->
            CheckCase(st, analyzeCheck(c.raw_expr, name), isEnumRef)
      [] c.contype = "CONSTR_DEFAULT" ->
            DefaultCase(st, extractDefault(IF Has(c, "raw_expr")
                                           THEN c.raw_expr ELSE Undefined))
      [] c.contype = "CONSTR_FOREIGN" -> ForeignCase(st, extractForeignKey(c))
      [] OTHER -> st

RECURSIVE ApplyConstraints(_, _, _, _, _)
ApplyConstraints(st, constraints, i, name, isEnumRef) ==
    IF i > Len(constraints) THEN st
    ELSE ApplyConstraints(ApplyConstraint(st, constraints[i], name, isEnumRef),
                          constraints, i + 1, name, isEnumRef)

\* the end of addColumn without the primary-key exclusion, `if (isRequired)`:
\* the faulty variant that C1 detects
FinishColumnRequiringKeys(tableSchema, name, st) ==
    [tableSchema EXCEPT
        !.required = IF st.isRequired THEN Append(@, name) ELSE @,
        !.properties =
            OPut(@, PropertyKey(name),
                 IF st.hasForeignKey
                 THEN Del(Del(Del(st.prop, "type"), "format"), "maxLength")
                 ELSE st.prop)]

\* the end of addColumn: st is the state the constraints left
FinishColumn(tableSchema, name, st) ==
    [tableSchema EXCEPT
        !.required = IF st.isRequired /\ ~st.isPrimaryKey THEN Append(@, name) ELSE @,
        !.properties =
            OPut(@, PropertyKey(name),
                 IF st.hasForeignKey
                 THEN Del(Del(Del(st.prop, "type"), "format"), "maxLength")
                 ELSE st.prop)]

\* PgToJsonSchemaConverter.addColumn: the table schema with col added
addColumn(enumRegistry, tableSchema, col) ==
    FinishColumn(tableSchema, ColName(col),
        ApplyConstraints([prop |-> InitialProp(enumRegistry, col),
                          isRequired |-> FALSE,
                          isPrimaryKey |-> FALSE,
                          hasForeignKey |-> FALSE],
                         col.constraints, 1, ColName(col),
                         OHas(enumRegistry, extractTypeName(TypeNameOf(col)))))

\* the loop over tableElts run from the last element to the first: the
\* faulty variant that C21 detects
RECURSIVE AddColumnsBackwards(_, _, _, _)
AddColumnsBackwards(enumRegistry, tableSchema, tableElts, i) ==
    IF i > Len(tableElts) THEN tableSchema
    ELSE LET elt == tableElts[Len(tableElts) + 1 - i]
         IN  AddColumnsBackwards(enumRegistry,
                    IF Has(elt, "ColumnDef")
                    THEN addColumn(enumRegistry, tableSchema, elt.ColumnDef)
                    ELSE tableSchema,
                    tableElts, i + 1)

RECURSIVE AddColumns(_, _, _, _)
AddColumns(enumRegistry, tableSchema, tableElts, i) ==
    IF i > Len(tableElts) THEN tableSchema
    ELSE AddColumns(enumRegistry,
                    IF Has(tableElts[i], "ColumnDef")
                    THEN addColumn(enumRegistry, tableSchema, tableElts[i].ColumnDef)
                    ELSE tableSchema,
                    tableElts, i + 1)

\* PgToJsonSchemaConverter.convertCreateStmt: the schema with stmt's table set
convertCreateStmt(enumRegistry, sch, stmt) ==
    LET tableSchema == AddColumns(enumRegistry,
                                  [type |-> "object",
                                   additionalProperties |-> FALSE,
                                   properties |-> <<>>,
                                   required |-> <<>>],
                                  stmt.tableElts, 1)
    IN  [sch EXCEPT !.properties = OPut(@, stmt.relation.relname, tableSchema)]

----------------------------------------------------------------------------
(* poc-json-schema/src/index.ts *)

\* the registry after the statements from i on: name is the first part of
\* typeName, vals the non-empty values
RECURSIVE BuildEnumRegistry(_, _, _)
BuildEnumRegistry(stmts, i, reg) ==
    IF i > Len(stmts) THEN reg
    ELSE LET node == stmts[i].CreateEnumStmt
             name == IF Len(node.typeName) > 0 THEN node.typeName[1] ELSE ""
             vals == SelectSeq(node.vals, LAMBDA v : v # "")
         IN  BuildEnumRegistry(stmts, i + 1,
                 IF Has(stmts[i], "CreateEnumStmt") /\ name # "" /\ Len(vals) > 0
                 THEN OPut(reg, name, vals) ELSE reg)

RECURSIVE ConvertStmts(_, _, _, _)
ConvertStmts(enumRegistry, sch, stmts, i) ==
    IF i > Len(stmts) THEN sch
    ELSE ConvertStmts(enumRegistry,
                      IF Has(stmts[i], "CreateStmt")
                      THEN convertCreateStmt(enumRegistry, sch, stmts[i].CreateStmt)
                      ELSE sch,
                      stmts, i + 1)

\* convert() without the pre-pass, each table seeing only the enums declared
\* before it: the faulty variant that C8 detects
RECURSIVE ConvertInOrder(_, _, _)
ConvertInOrder(sch, stmts, i) ==
    IF i > Len(stmts) THEN sch
    ELSE ConvertInOrder(IF Has(stmts[i], "CreateStmt")
                        THEN convertCreateStmt(
                                BuildEnumRegistry(SubSeq(stmts, 1, i - 1), 1, <<>>),
                                sch, stmts[i].CreateStmt)
                        ELSE sch,
                        stmts, i + 1)

convertInOnePass(stmts) ==
    ConvertInOrder(NewConverter(BuildEnumRegistry(stmts, 1, <<>>)), stmts, 1)

\* convert(), from the parsed statements on
convert(stmts) ==
    LET enumRegistry == BuildEnumRegistry(stmts, 1, <<>>)
    IN  ConvertStmts(enumRegistry, NewConverter(enumRegistry), stmts, 1)

\* the calls of mapType that convert() makes: one per column whose type is
\* not a registered enum, as [pgType, typmods]
MappedColumns(stmts) ==
    LET enumRegistry == BuildEnumRegistry(stmts, 1, <<>>)
        tables == SelectSeq(stmts, LAMBDA st : Has(st, "CreateStmt"))
        elts == Flatten([i \in DOMAIN tables |-> tables[i].CreateStmt.tableElts])
        cols == SelectSeq(elts, LAMBDA e :
                    /\ Has(e, "ColumnDef")
                    /\ ~OHas(enumRegistry, extractTypeName(TypeNameOf(e.ColumnDef))))
    IN  [i \in DOMAIN cols |->
            [pgType |-> extractTypeName(TypeNameOf(cols[i].ColumnDef)),
             typmods |-> TypeField(cols[i].ColumnDef, "typmods")]]

----------------------------------------------------------------------------
(* poc-deparser/src/type-map.ts *)

IntegerNames ==
    {"int2", "smallint", "int4", "integer", "int", "int8", "bigint", "serial",
     "serial4", "bigserial", "serial8", "smallserial", "serial2", "bool",
     "boolean", "oid", "xid", "xid8", "cid"}
RealNames == {"float4", "real", "float8", "double precision", "money"}
NumericNames == {"numeric", "decimal"}
BlobNames == {"bytea", "internal"}
TextNames ==
    {"text", "varchar", "character varying", "char", "character", "bpchar",
     "name", "citext", "date", "time", "time without time zone", "timetz",
     "time with time zone", "timestamp", "timestamp without time zone",
     "timestamptz", "timestamp with time zone", "interval", "json", "jsonb",
     "uuid", "inet", "cidr", "macaddr", "macaddr8", "bit", "bit varying",
     "varbit", "point", "line", "lseg", "box", "path", "polygon", "circle",
     "tsvector", "tsquery", "int4range", "int8range", "numrange", "tsrange",
     "tstzrange", "daterange", "int4multirange", "int8multirange",
     "nummultirange", "tsmultirange", "tstzmultirange", "datemultirange",
     "xml", "regclass", "regcollation", "regconfig", "regdictionary",
     "regnamespace", "regoper", "regoperator", "regproc", "regprocedure",
     "regrole", "regtype", "tid", "pg_lsn", "void", "record", "any",
     "anyarray", "anyelement", "anyenum", "anynonarray", "anyrange",
     "anymultirange", "anycompatible", "anycompatiblearray",
     "anycompatiblenonarray", "anycompatiblerange", "anycompatiblemultirange",
     "language_handler", "fdw_handler", "index_am_handler", "table_am_handler",
     "tsm_handler", "trigger", "event_trigger"}

PG_TO_SQLITE ==
    [n \in IntegerNames |-> "INTEGER"] @@ [n \in RealNames |-> "REAL"] @@
    [n \in NumericNames |-> "NUMERIC"] @@ [n \in BlobNames |-> "BLOB"] @@
    [n \in TextNames |-> "TEXT"]

\* names of the model that start with '_' or end with '[]'
ArraySpelledNames == {"_int4", "_text", "int4[]"}

mapTypeToSQLite(pgType) ==
    LET normalized == toLowerCase(pgType)
    IN  IF normalized \in ArraySpelledNames THEN "TEXT"
        ELSE IF normalized \in DOMAIN PG_TO_SQLITE THEN PG_TO_SQLITE[normalized]
        ELSE "TEXT"

isSerialType(pgType) ==
    toLowerCase(pgType) \in
        {"serial", "serial4", "bigserial", "serial8", "smallserial", "serial2"}

isLengthConstrainedType(pgType) ==
    toLowerCase(pgType) \in
        {"varchar", "character varying", "char", "character", "bpchar"}

\* the uuid expression of PG_FUNC_TO_SQLITE, as one token
UuidExpr == "lower(hex(randomblob(4))) || '-' || ... || lower(hex(randomblob(6)))"

mapFunctionToSQLite(pgFunc) ==
    LET normalized == toLowerCase(pgFunc)
    IN  CASE normalized \in {"gen_random_uuid", "uuid_generate_v4"} -> UuidExpr
          [] normalized \in {"now", "current_timestamp"} -> "datetime('now')"
          [] normalized = "current_date" -> "date('now')"
          [] normalized = "current_time" -> "time('now')"
          [] OTHER -> pgFunc

\* the type predicates the deparser imports next to the ones above
isBooleanType(pgType) == toLowerCase(pgType) \in {"bool", "boolean"}
isTimestampType(pgType) == toLowerCase(pgType) \in {"timestamp", "timestamptz"}
isDateType(pgType) == toLowerCase(pgType) = "date"
isTimeType(pgType) == toLowerCase(pgType) \in {"time", "timetz"}
isNumericType(pgType) == toLowerCase(pgType) \in {"numeric", "decimal"}
isJsonType(pgType) == toLowerCase(pgType) \in {"json", "jsonb"}

----------------------------------------------------------------------------
(* poc-deparser/src/sqlite-deparser.ts                                     *)
(* Text is a sequence of tokens; parts.join(' ') is their concatenation.   *)

RECURSIVE CommaSep(_)
CommaSep(items) ==
    IF Len(items) = 0 THEN <<>>
    ELSE IF Len(items) = 1 THEN <<items[1]>>
    ELSE <<items[1], ",">> \o CommaSep(Tail(items))

RECURSIVE Pow10(_)
Pow10(n) == IF n <= 0 THEN 1 ELSE 10 * Pow10(n - 1)

Quote(v) == "'" \o v \o "'"

\* the name parts of a node list, empty ones filtered out
NameParts(names) == SelectSeq(names, LAMBDA n : n # "")

\* names.join('.').toLowerCase(), computed part by part
LowerJoin(names) == JoinDot(LowerParts(names))

\* SQLiteDeparser.collectEnums: registry keyed by the lower-cased dotted name
RECURSIVE collectEnums(_, _, _)
collectEnums(stmts, i, reg) ==
    IF i > Len(stmts) THEN reg
    ELSE LET node == stmts[i].CreateEnumStmt
             typeName == NameParts(node.typeName)
             vals == SelectSeq(node.vals, LAMBDA v : v # "")
         IN  collectEnums(stmts, i + 1,
                 IF Has(stmts[i], "CreateEnumStmt") /\ Len(typeName) > 0
                 THEN OPut(reg, LowerJoin(typeName), vals) ELSE reg)

\* SQLiteDeparser.TypeName
TypeName(reg, node) ==
    LET names == NameParts(node.names)
        qualified == ~(Len(names) = 2 /\ names[1] = "pg_catalog")
        pgType == IF qualified THEN JoinDot(names) ELSE names[2]
        lowered == IF qualified THEN LowerJoin(names) ELSE toLowerCase(names[2])
    IN  IF Len(names) = 0 THEN ""
        ELSE IF Len(node.arrayBounds) > 0 THEN "TEXT"
        ELSE IF OHas(reg, lowered) THEN "TEXT"
        ELSE mapTypeToSQLite(pgType)

\* SQLiteDeparser.getFkAction; null is modelled by ""
getFkAction(action) ==
    CASE action = "a" -> ""
      [] action = "r" -> "RESTRICT"
      [] action = "c" -> "CASCADE"
      [] action = "n" -> "SET NULL"
      [] action = "d" -> "SET DEFAULT"
      [] OTHER -> ""

\* this.visit(expr): the expression printer, with the overrides FuncCall,
\* A_Expr and TypeCast of SQLiteDeparser
RECURSIVE visitExpr(_, _)
visitExpr(reg, expr) ==
    IF Has(expr, "A_Const")
    THEN LET c == expr.A_Const
         IN  IF Has(c, "ival")
             THEN <<ToString(IF Has(c.ival, "ival") THEN c.ival.ival ELSE 0)>>
             ELSE IF Has(c, "sval")
             THEN <<Quote(IF Has(c.sval, "sval") THEN c.sval.sval ELSE "")>>
             ELSE IF Has(c, "boolval")
             THEN <<IF Has(c.boolval, "boolval") /\ c.boolval.boolval
                    THEN "true" ELSE "false">>
             ELSE <<"NULL">>
    ELSE IF Has(expr, "ColumnRef") THEN <<JoinDot(expr.ColumnRef.fields)>>
    ELSE IF Has(expr, "FuncCall")
    THEN LET names == NameParts(expr.FuncCall.funcname)
             funcName == toLowerCase(Last(names))
             noArgs == ~Has(expr.FuncCall, "args") \/ Len(expr.FuncCall.args) = 0
         IN  IF Len(names) > 0 /\ funcName = "now" /\ noArgs
             THEN <<"datetime", "(", "'now'", ")">>
             ELSE IF Len(names) > 0 /\ funcName = "current_timestamp"
             THEN <<"datetime", "(", "'now'", ")">>
             ELSE IF Len(names) > 0 /\ funcName \in {"gen_random_uuid", "uuid_generate_v4"}
             THEN <<mapFunctionToSQLite(funcName)>>
             ELSE <<JoinDot(names), "(">>
                  \o (IF noArgs THEN <<>> ELSE
                      Flatten([i \in DOMAIN expr.FuncCall.args |->
                                  (IF i > 1 THEN <<",">> ELSE <<>>)
                                  \o visitExpr(reg, expr.FuncCall.args[i])]))
                  \o <<")">>
    ELSE IF Has(expr, "SQLValueFunction")
    THEN <<IF expr.SQLValueFunction.op \in DOMAIN opMap
           THEN opMap[expr.SQLValueFunction.op] ELSE "SQL_FUNCTION">>
    ELSE IF Has(expr, "TypeCast")
    THEN <<"CAST", "(">> \o visitExpr(reg, expr.TypeCast.arg)
         \o <<"AS", TypeName(reg, expr.TypeCast.typeName), ")">>
    ELSE IF Has(expr, "A_Expr")
    THEN LET e == expr.A_Expr
             opName == IF Len(e.name) > 0 THEN e.name[1] ELSE ""
             left == visitExpr(reg, e.lexpr)
         IN  IF opName \in {"~~", "~~*"}
             THEN left \o <<"LIKE">> \o visitExpr(reg, e.rexpr)
             ELSE IF opName \in {"!~~", "!~~*"}
             THEN left \o <<"NOT LIKE">> \o visitExpr(reg, e.rexpr)
             ELSE IF opName \in {"~", "~*"}
             THEN left \o <<"GLOB">> \o visitExpr(reg, e.rexpr)
             ELSE IF e.kind = "AEXPR_IN"
             THEN left \o <<"IN", "(">>
                  \o Flatten([i \in DOMAIN e.rexpr.List.items |->
                                 (IF i > 1 THEN <<",">> ELSE <<>>)
                                 \o visitExpr(reg, e.rexpr.List.items[i])])
                  \o <<")">>
             ELSE left \o <<opName>> \o visitExpr(reg, e.rexpr)
    ELSE IF Has(expr, "BoolExpr")
    THEN LET b == expr.BoolExpr
             word == IF b.boolop = "AND_EXPR" THEN "AND" ELSE "OR"
         IN  Flatten([i \in DOMAIN b.args |->
                              (IF i > 1 THEN <<word>> ELSE <<>>)
                              \o visitExpr(reg, b.args[i])])
    ELSE <<"EXPR">>

\* the column list of a table-level PRIMARY KEY / UNIQUE constraint
KeyList(node) ==
    IF Has(node, "keys") /\ Len(node.keys) > 0
    THEN <<"(">> \o CommaSep(NameParts(node.keys)) \o <<")">>
    ELSE <<>>

\* SQLiteDeparser.Constraint; '' is the empty text
Constraint(reg, node) ==
    LET expr == visitExpr(reg, node.raw_expr)
        del == IF Has(node, "fk_del_action") /\ node.fk_del_action \notin {"", "a"}
               THEN getFkAction(node.fk_del_action) ELSE ""
        upd == IF Has(node, "fk_upd_action") /\ node.fk_upd_action \notin {"", "a"}
               THEN getFkAction(node.fk_upd_action) ELSE ""
    IN  IF node.contype \in {"CONSTR_ATTR_DEFERRABLE", "CONSTR_ATTR_NOT_DEFERRABLE",
                             "CONSTR_ATTR_DEFERRED", "CONSTR_ATTR_IMMEDIATE"}
        THEN <<>>
        ELSE IF node.contype = "CONSTR_CHECK" /\ Has(node, "raw_expr")
        THEN (IF Has(node, "conname") THEN <<"CONSTRAINT", node.conname>> ELSE <<>>)
             \o <<"CHECK", "(">> \o expr \o <<")">>
        ELSE IF node.contype = "CONSTR_DEFAULT" /\ Has(node, "raw_expr")
        THEN (IF "(" \in SeqSet(expr) /\ expr[1] # "("
              THEN <<"DEFAULT", "(">> \o expr \o <<")">>
              ELSE <<"DEFAULT">> \o expr)
        ELSE IF node.contype = "CONSTR_FOREIGN" /\ Has(node, "pktable")
        THEN <<"REFERENCES", node.pktable.relname>>
             \o (IF Has(node, "pk_attrs") /\ Len(node.pk_attrs) > 0
                 THEN <<"(">> \o CommaSep(NameParts(node.pk_attrs)) \o <<")">>
                 ELSE <<>>)
             \o (IF del # "" THEN <<"ON DELETE", del>> ELSE <<>>)
             \o (IF upd # "" THEN <<"ON UPDATE", upd>> ELSE <<>>)
        \* super.Constraint(node) for the remaining kinds
        ELSE CASE node.contype = "CONSTR_NOTNULL" -> <<"NOT NULL">>
               [] node.contype = "CONSTR_NULL" -> <<"NULL">>
               [] node.contype = "CONSTR_PRIMARY" -> <<"PRIMARY KEY">> \o KeyList(node)
               [] node.contype = "CONSTR_UNIQUE" -> <<"UNIQUE">> \o KeyList(node)
               [] OTHER -> <<>>

\* `CHECK (${colname} IS NULL OR ${check})` without its null-allowance: the
\* faulty variant that C14 detects
Unguarded(colname, check) ==
    <<"CHECK", "(">> \o check \o <<")">>

\* `CHECK (${colname} IS NULL OR ${check})`
NullGuarded(colname, check) ==
    <<"CHECK", "(", colname, "IS NULL OR">> \o check \o <<")">>

\* fn(colname) IS colname
FormatCheck(fn, colname) == <<fn, "(", colname, ")", "IS", colname>>

\* the type-validation CHECK of a column: array, enum, boolean, JSON,
\* timestamp, date, time, in the order the code tests them
TypeCheck(reg, colname, pgType, isArray) ==
    IF isArray
    THEN NullGuarded(colname,
            <<"(", "json_valid", "(", colname, ")", "AND", "json_type", "(",
              colname, ")", "=", "'array'", ")">>)
    ELSE IF pgType = "" THEN <<>>
    ELSE IF OHas(reg, toLowerCase(pgType))
    THEN <<"CHECK", "(", colname, "IN", "(">>
         \o CommaSep([i \in DOMAIN OGet(reg, toLowerCase(pgType)) |->
                         Quote(OGet(reg, toLowerCase(pgType))[i])])
         \o <<")", ")">>
    ELSE IF isBooleanType(pgType)
    THEN <<"CHECK", "(", colname, "IN", "(", "0", ",", "1", ")", ")">>
    ELSE IF isJsonType(pgType)
    THEN NullGuarded(colname, <<"json_valid", "(", colname, ")">>)
    ELSE IF isTimestampType(pgType)
    THEN NullGuarded(colname, FormatCheck("datetime", colname))
    ELSE IF isDateType(pgType)
    THEN NullGuarded(colname, FormatCheck("date", colname))
    ELSE IF isTimeType(pgType)
    THEN NullGuarded(colname, FormatCheck("time", colname))
    ELSE <<>>

\* SQLiteDeparser.ColumnDef; a column without a name has colname = ""
ColumnDef(reg, node) ==
    LET colname == ColName(node)
        hasType == Has(node, "typeName")
        names == NameParts(TypeField(node, "names"))
        pgType == IF Len(names) = 0 THEN ""
                  ELSE IF Len(names) = 2 /\ names[1] = "pg_catalog" THEN names[2]
                  ELSE names[1]
        isSerial == pgType # "" /\ isSerialType(pgType)
        isArray == Len(TypeField(node, "arrayBounds")) > 0
        typmods == TypeField(node, "typmods")
        lengthConstraint ==
            pgType # "" /\ isLengthConstrainedType(pgType) /\ Len(typmods) > 0
            /\ typmods[1] > 0
        numericConstraint ==
            pgType # "" /\ isNumericType(pgType) /\ Len(typmods) >= 2
            /\ typmods[1] > 0 /\ typmods[2] >= 0
        hasPrimaryKey ==
            /\ hasType
            /\ \E i \in DOMAIN node.constraints :
                  node.constraints[i].contype = "CONSTR_PRIMARY"
        constraintStrs ==
            Flatten([i \in DOMAIN node.constraints |-> Constraint(reg, node.constraints[i])])
        multiplier == ToString(Pow10(typmods[2]))
        maxInt == ToString(Pow10(typmods[1] - typmods[2]))
    IN  (IF colname # "" THEN <<colname>> ELSE <<>>)
        \o (IF hasType THEN <<TypeName(reg, node.typeName)>> ELSE <<>>)
        \o constraintStrs
        \o (IF isSerial /\ hasPrimaryKey THEN <<"AUTOINCREMENT">> ELSE <<>>)
        \o (IF lengthConstraint /\ colname # ""
            THEN <<"CHECK", "(", "length", "(", colname, ")", "<=",
                   ToString(typmods[1]), ")">>
            ELSE <<>>)
        \o (IF numericConstraint /\ colname # ""
            THEN <<"CHECK", "(", "ABS", "(", "ROUND", "(", colname, "*", multiplier,
                   ")", "-", colname, "*", multiplier, ")", "<", "0.0001", "AND",
                   "ABS", "(", colname, ")", "<", maxInt, ")">>
            ELSE <<>>)
        \o (IF colname # "" THEN TypeCheck(reg, colname, pgType, isArray) ELSE <<>>)

\* SQLiteDeparser.CreateStmt: one line per table element, STRICT appended
CreateStmt(reg, node) ==
    <<<<"CREATE TABLE", node.relation.relname, "(">>>>
    \o [i \in DOMAIN node.tableElts |->
           IF Has(node.tableElts[i], "ColumnDef")
           THEN ColumnDef(reg, node.tableElts[i].ColumnDef)
           ELSE Constraint(reg, node.tableElts[i].Constraint)]
    \o <<<<")", "STRICT">>>>

\* the text of one top-level statement; '' is <<>>
DeparseStmt(reg, stmt) ==
    IF Has(stmt, "CreateStmt") THEN CreateStmt(reg, stmt.CreateStmt)
    ELSE IF Has(stmt, "CreateEnumStmt") THEN <<>>
    ELSE IF Has(stmt, "CreateSeqStmt")
    THEN <<<<"-- SEQUENCE", stmt.CreateSeqStmt.sequence.relname,
             "not supported in SQLite (use AUTOINCREMENT)">>>>
    ELSE IF Has(stmt, "IndexStmt")
    THEN <<<<IF stmt.IndexStmt.unique THEN "CREATE UNIQUE INDEX" ELSE "CREATE INDEX",
             stmt.IndexStmt.idxname, "ON", stmt.IndexStmt.relation.relname,
             "(", stmt.IndexStmt.column, ")">>>>
    ELSE <<<<"STATEMENT">>>>

\* deparse(ast): the statements' texts in order, empty statements removed
deparse(stmts) ==
    LET reg == collectEnums(stmts, 1, <<>>)
        texts == [i \in DOMAIN stmts |-> DeparseStmt(reg, stmts[i])]
    IN  SelectSeq(texts, LAMBDA t : Len(t) > 0)

----------------------------------------------------------------------------
(* poc-json-schema/src/to-sqlite.ts *)

RESERVED ==
    {"abort", "action", "add", "after", "all", "alter", "always", "analyze",
     "and", "as", "asc", "attach", "autoincrement", "before", "begin",
     "between", "by", "cascade", "case", "cast", "check", "collate", "column",
     "commit", "conflict", "constraint", "create", "cross", "current",
     "current_date", "current_time", "current_timestamp", "database", "default",
     "deferrable", "deferred", "delete", "desc", "detach", "distinct", "do",
     "drop", "each", "else", "end", "escape", "except", "exclude", "exclusive",
     "exists", "explain", "fail", "filter", "first", "following", "for",
     "foreign", "from", "full", "generated", "glob", "group", "groups",
     "having", "if", "ignore", "immediate", "in", "index", "indexed",
     "initially", "inner", "insert", "instead", "intersect", "into", "is",
     "isnull", "join", "key", "last", "left", "like", "limit", "match",
     "materialized", "natural", "no", "not", "nothing", "notnull", "null",
     "nulls", "of", "offset", "on", "or", "order", "others", "outer", "over",
     "partition", "plan", "pragma", "preceding", "primary", "query", "raise",
     "range", "recursive", "references", "regexp", "reindex", "release",
     "rename", "replace", "restrict", "returning", "right", "rollback", "row",
     "rows", "savepoint", "select", "set", "table", "temp", "temporary",
     "then", "ties", "to", "transaction", "trigger", "unbounded", "union",
     "unique", "update", "using", "vacuum", "values", "view", "virtual",
     "when", "where", "window", "with", "without"}

\* identifiers of the model that contain a character outside [a-zA-Z0-9_]
SpecialCharNames == {"my col", "a/b"}

needsQuoting(name) == toLowerCase(name) \in RESERVED \/ name \in SpecialCharNames

q(name) == IF needsQuoting(name) THEN "\"" \o name \o "\"" ELSE name

\* String.prototype.toUpperCase on the action names of the model
toUpperCase(str) ==
    CASE str = "cascade" -> "CASCADE"
      [] str = "set null" -> "SET NULL"
      [] str = "set default" -> "SET DEFAULT"
      [] str = "restrict" -> "RESTRICT"
      [] str = "no action" -> "NO ACTION"
      [] OTHER -> str

\* identifiers a reference path can name: the ones without a '/'
RefNames == {"users", "t", "ghost", "id", "c", "d", "order", "my col", "undefined"}

RefPath(table, col) == "#/properties/" \o table \o "/properties/" \o col

\* ref.match(/^#\/properties\/([^/]+)\/properties\/([^/]+)$/): the pair
\* <<table, column>>, or <<>> when the pattern does not match
MatchRef(ref) ==
    IF \E table \in RefNames, col \in RefNames : ref = RefPath(table, col)
    THEN CHOOSE m \in RefNames \X RefNames : ref = RefPath(m[1], m[2])
    ELSE <<>>

typeMap ==
    [ string |-> "TEXT", integer |-> "INTEGER", number |-> "REAL",
      boolean |-> "INTEGER", object |-> "TEXT", array |-> "TEXT" ]

\* resolveType that looks at the referenced property's own type and follows
\* no further reference: the faulty variant that C16 detects
resolveTypeOneHop(prop, sch, depth) ==
    LET match == MatchRef(prop["$ref"])
        refProp == OGet(OGet(sch.properties, match[1]).properties, match[2])
    IN  IF Has(prop, "$ref")
        THEN (IF /\ match # <<>>
                 /\ OHas(sch.properties, match[1])
                 /\ OHas(OGet(sch.properties, match[1]).properties, match[2])
                 /\ Has(refProp, "type") /\ refProp.type \in DOMAIN typeMap
              THEN typeMap[refProp.type] ELSE "TEXT")
        ELSE IF Has(prop, "type") /\ prop.type \in DOMAIN typeMap
        THEN typeMap[prop.type]
        ELSE "TEXT"

\* resolveType, nested depth frames deep: the SQLite type, or "RangeError"
\* when the recursion exhausts the call stack
RECURSIVE resolveType(_, _, _)
resolveType(prop, sch, depth) ==
    IF depth > MaxCallStack THEN "RangeError"
    ELSE IF Has(prop, "$ref")
    THEN LET match == MatchRef(prop["$ref"])
             table == match[1]
             col == match[2]
         IN  IF /\ match # <<>>
                /\ OHas(sch.properties, table)
                /\ OHas(OGet(sch.properties, table).properties, col)
             THEN resolveType(OGet(OGet(sch.properties, table).properties, col),
                              sch, depth + 1)
             ELSE "TEXT"
    ELSE IF Has(prop, "type") /\ prop.type \in DOMAIN typeMap
    THEN typeMap[prop.type]
    ELSE "TEXT"

\* resolveFk: <<table, column>> or <<>> (null)
resolveFk(ref) == MatchRef(ref)

\* the text of one column with a DEFAULT clause for a `default` key: the
\* faulty variant that C18 detects
ColumnLineWithDefault(sch, tableSchema, colName, prop) ==
    LET fk == resolveFk(prop["$ref"])
    IN  <<q(colName), resolveType(prop, sch, 1)>>
        \o (IF Has(prop, "$primaryKey") /\ prop["$primaryKey"]
            THEN (IF resolveType(prop, sch, 1) = "INTEGER"
                  THEN <<"PRIMARY KEY AUTOINCREMENT">> ELSE <<"PRIMARY KEY">>)
            ELSE <<>>)
        \o (IF Has(tableSchema, "required") /\ colName \in SeqSet(tableSchema.required)
            THEN <<"NOT NULL">> ELSE <<>>)
        \o (IF Has(prop, "$ref") /\ fk # <<>>
            THEN <<"REFERENCES", q(fk[1]), "(", q(fk[2]), ")">>
                 \o (IF Has(prop, "$onDelete") /\ prop["$onDelete"] # ""
                     THEN <<"ON DELETE", toUpperCase(prop["$onDelete"])>> ELSE <<>>)
                 \o (IF Has(prop, "$onUpdate") /\ prop["$onUpdate"] # ""
                     THEN <<"ON UPDATE", toUpperCase(prop["$onUpdate"])>> ELSE <<>>)
            ELSE <<>>)
        \o (IF Has(prop, "default") THEN <<"DEFAULT", "0">> ELSE <<>>)

\* the text of one column
ColumnLine(sch, tableSchema, colName, prop) ==
    LET fk == resolveFk(prop["$ref"])
    IN  <<q(colName), resolveType(prop, sch, 1)>>
        \o (IF Has(prop, "$primaryKey") /\ prop["$primaryKey"]
            THEN (IF resolveType(prop, sch, 1) = "INTEGER"
                  THEN <<"PRIMARY KEY AUTOINCREMENT">> ELSE <<"PRIMARY KEY">>)
            ELSE <<>>)
        \o (IF Has(tableSchema, "required") /\ colName \in SeqSet(tableSchema.required)
            THEN <<"NOT NULL">> ELSE <<>>)
        \o (IF Has(prop, "$ref") /\ fk # <<>>
            THEN <<"REFERENCES", q(fk[1]), "(", q(fk[2]), ")">>
                 \o (IF Has(prop, "$onDelete") /\ prop["$onDelete"] # ""
                     THEN <<"ON DELETE", toUpperCase(prop["$onDelete"])>> ELSE <<>>)
                 \o (IF Has(prop, "$onUpdate") /\ prop["$onUpdate"] # ""
                     THEN <<"ON UPDATE", toUpperCase(prop["$onUpdate"])>> ELSE <<>>)
            ELSE <<>>)

TableStatement(sch, tableName, tableSchema) ==
    <<<<"CREATE TABLE", q(tableName), "(">>>>
    \o [i \in DOMAIN tableSchema.properties |->
           ColumnLine(sch, tableSchema, tableSchema.properties[i].key,
                      tableSchema.properties[i].val)]
    \o <<<<")">>>>

\* the IndexDef entries with `unique` never set: the faulty variant that C17
\* detects
TableIndicesNeverUnique(tableName, tableSchema) ==
    LET cols == SelectSeq(tableSchema.properties,
                          LAMBDA e : Has(e.val, "$index") /\ e.val["$index"] # JsBool(FALSE))
    IN  [i \in DOMAIN cols |->
            [table |-> tableName, column |-> cols[i].key, unique |-> FALSE]]

\* the IndexDef entries of one table, in column order
TableIndices(tableName, tableSchema) ==
    LET cols == SelectSeq(tableSchema.properties,
                          LAMBDA e : Has(e.val, "$index") /\ e.val["$index"] # JsBool(FALSE))
    IN  [i \in DOMAIN cols |->
            [table |-> tableName, column |-> cols[i].key,
             unique |-> cols[i].val["$index"] = JsStr("unique")]]

IndexStatement(idx) ==
    <<<<IF idx.unique THEN "CREATE UNIQUE INDEX" ELSE "CREATE INDEX",
        q("idx_" \o idx.table \o "_" \o idx.column), "ON", q(idx.table),
        "(", q(idx.column), ")">>>>

\* jsonSchemaToSqlite: [status |-> "ok", text |-> the statements, tables
\* first], or [status |-> "RangeError"] when resolveType overflowed
jsonSchemaToSqlite(sch) ==
    LET tables == [i \in DOMAIN sch.properties |->
                      TableStatement(sch, sch.properties[i].key, sch.properties[i].val)]
        indices == Flatten([i \in DOMAIN sch.properties |->
                      TableIndices(sch.properties[i].key, sch.properties[i].val)])
        indexStatements == [i \in DOMAIN indices |-> IndexStatement(indices[i])]
        overflow == \E i \in DOMAIN tables : \E j \in DOMAIN tables[i] :
                        "RangeError" \in SeqSet(tables[i][j])
    IN  IF overflow THEN [status |-> "RangeError"]
        ELSE [status |-> "ok", text |-> tables \o indexStatements]

----------------------------------------------------------------------------
(* The SQL parser (pgsql-parser's parse) on the text jsonSchemaToSqlite     *)
(* emits: identifiers are unquoted, INTEGER / REAL / TEXT become the        *)
(* parser's type names, a foreign key without an action carries code 'a',  *)
(* and a word PostgreSQL's grammar does not know is a syntax error.        *)

IndexNames == {"idx_" \o table \o "_" \o col : table \in RefNames, col \in RefNames}
Unquote(tok) == CHOOSE n \in RefNames \cup IndexNames : q(n) = tok

ParsedTypeName(sqliteType) ==
    [ names |-> CASE sqliteType = "INTEGER" -> <<"pg_catalog", "int4">>
                  [] sqliteType = "REAL" -> <<"pg_catalog", "float4">>
                  [] OTHER -> <<"text">>,
      typmods |-> <<>>, arrayBounds |-> <<>> ]

ActionCode(word) ==
    CASE word = "CASCADE" -> "c"
      [] word = "SET NULL" -> "n"
      [] word = "SET DEFAULT" -> "d"
      [] word = "RESTRICT" -> "r"
      [] word = "NO ACTION" -> "a"
      [] OTHER -> "syntax error"

\* the constraints spelled by toks from position i on, as [ok, cons];
\* ok is FALSE when a token is not PostgreSQL
RECURSIVE ParseColQuals(_, _)
ParseColQuals(toks, i) ==
    IF i > Len(toks) THEN [ok |-> TRUE, cons |-> <<>>]
    ELSE LET hasDel == i + 5 <= Len(toks) /\ toks[i + 5] = "ON DELETE"
             afterDel == IF hasDel THEN i + 7 ELSE i + 5
             hasUpd == afterDel <= Len(toks) /\ toks[afterDel] = "ON UPDATE"
             afterUpd == IF hasUpd THEN afterDel + 2 ELSE afterDel
             del == IF hasDel THEN ActionCode(toks[i + 6]) ELSE "a"
             upd == IF hasUpd THEN ActionCode(toks[afterDel + 1]) ELSE "a"
             known == \/ toks[i] \in {"PRIMARY KEY", "NOT NULL"}
                      \/ toks[i] = "REFERENCES" /\ "syntax error" \notin {del, upd}
             here ==
                CASE toks[i] = "PRIMARY KEY" -> [contype |-> "CONSTR_PRIMARY"]
                  [] toks[i] = "NOT NULL" -> [contype |-> "CONSTR_NOTNULL"]
                  [] OTHER ->
                        [contype |-> "CONSTR_FOREIGN",
                         pktable |-> [relname |-> Unquote(toks[i + 1])],
                         pk_attrs |-> <<Unquote(toks[i + 3])>>,
                         fk_del_action |-> del, fk_upd_action |-> upd]
             rest == ParseColQuals(toks, IF toks[i] = "REFERENCES" THEN afterUpd ELSE i + 1)
         IN  IF known /\ rest.ok
             THEN [ok |-> TRUE, cons |-> <<here>> \o rest.cons]
             ELSE [ok |-> FALSE, cons |-> <<>>]

ParseStatement(st) ==
    IF st[1][1] = "CREATE TABLE"
    THEN LET quals == [j \in 1..(Len(st) - 2) |-> ParseColQuals(st[j + 1], 3)]
             cols == [j \in 1..(Len(st) - 2) |->
                        [ColumnDef |->
                            [colname |-> Unquote(st[j + 1][1]),
                             typeName |-> ParsedTypeName(st[j + 1][2]),
                             constraints |-> quals[j].cons]]]
         IN  IF \E j \in DOMAIN quals : ~quals[j].ok
             THEN [syntax_error |-> TRUE]
             ELSE [CreateStmt |-> [relation |-> [relname |-> Unquote(st[1][2])],
                                   tableElts |-> cols]]
    ELSE [IndexStmt |-> [idxname |-> Unquote(st[1][2]),
                         relation |-> [relname |-> Unquote(st[1][4])],
                         column |-> Unquote(st[1][6]),
                         unique |-> st[1][1] = "CREATE UNIQUE INDEX"]]

\* the statements of text, or <<>> with ok = FALSE when parse() throws
ParseDdl(text) ==
    LET stmts == [i \in DOMAIN text |-> ParseStatement(text[i])]
    IN  IF \E i \in DOMAIN stmts : Has(stmts[i], "syntax_error")
        THEN [ok |-> FALSE, stmts |-> <<>>]
        ELSE [ok |-> TRUE, stmts |-> stmts]

----------------------------------------------------------------------------
(* poc-kysely/src/type-map.ts and converter.ts                             *)
(* The result is the node Kysely's schema builder holds, one per           *)
(* statement; builder.compile() is Kysely's own printer.                   *)

KYSELY_PG_TO_SQLITE ==
    [ int2 |-> "integer", smallint |-> "integer", int4 |-> "integer",
      integer |-> "integer", int |-> "integer", int8 |-> "integer",
      bigint |-> "integer", serial |-> "integer", bigserial |-> "integer",
      smallserial |-> "integer",
      float4 |-> "real", real |-> "real", float8 |-> "real",
      numeric |-> "real", decimal |-> "real",
      text |-> "text", varchar |-> "text", char |-> "text",
      character |-> "text", bpchar |-> "text",
      bytea |-> "blob",
      bool |-> "integer", boolean |-> "integer",
      date |-> "text", time |-> "text", timetz |-> "text", timestamp |-> "text",
      timestamptz |-> "text", interval |-> "text",
      json |-> "text", jsonb |-> "text",
      uuid |-> "text", money |-> "real", inet |-> "text", cidr |-> "text",
      macaddr |-> "text" ]
    @@ ("double precision" :> "real") @@ ("character varying" :> "text")

KyselyMapType(pgType) ==
    IF toLowerCase(pgType) \in DOMAIN KYSELY_PG_TO_SQLITE
    THEN KYSELY_PG_TO_SQLITE[toLowerCase(pgType)] ELSE "text"

KyselyIsSerialType(pgType) ==
    toLowerCase(pgType) \in {"serial", "bigserial", "smallserial"}

\* PgToKyselyConverter.extractTypeName
KyselyExtractTypeName(typeName) ==
    IF typeName = Undefined \/ ~Has(typeName, "names") THEN "text"
    ELSE LET names == NameParts(typeName.names)
         IN  IF Len(names) > 1 /\ names[1] = "pg_catalog" THEN names[2]
             ELSE IF Len(names) > 0 THEN names[1] ELSE "text"

\* PgToKyselyConverter.extractDefaultValue; expr is Undefined when the
\* constraint has no raw_expr
extractDefaultValue(expr) ==
    IF expr = Undefined THEN Null
    ELSE IF Has(expr, "A_Const") /\ Has(expr.A_Const, "ival")
    THEN JsNum(IF Has(expr.A_Const.ival, "ival") THEN expr.A_Const.ival.ival ELSE 0)
    ELSE IF Has(expr, "A_Const") /\ Has(expr.A_Const, "sval")
    THEN (IF Has(expr.A_Const.sval, "sval") THEN JsStr(expr.A_Const.sval.sval)
          ELSE Undefined)
    ELSE IF Has(expr, "A_Const") /\ Has(expr.A_Const, "boolval")
    THEN JsNum(IF Has(expr.A_Const.boolval, "boolval") /\ expr.A_Const.boolval.boolval
               THEN 1 ELSE 0)
    ELSE IF /\ Has(expr, "FuncCall")
            /\ Len(expr.FuncCall.funcname) > 0
            /\ toLowerCase(expr.FuncCall.funcname[1]) = "now"
    THEN JsStr("CURRENT_TIMESTAMP")
    ELSE IF /\ Has(expr, "ColumnRef")
            /\ Len(expr.ColumnRef.fields) > 0
            /\ toUpperCase(expr.ColumnRef.fields[1]) = "CURRENT_TIMESTAMP"
    THEN JsStr("CURRENT_TIMESTAMP")
    ELSE Null

\* fkBuilder.onDelete / onUpdate for the codes the converter tests
KyselyAction(node, constraint, field, key) ==
    IF ~Has(constraint, field) THEN node
    ELSE IF constraint[field] = "c" THEN Put(node, key, "cascade")
    ELSE IF constraint[field] = "n" THEN Put(node, key, "set null")
    ELSE IF constraint[field] = "r" THEN Put(node, key, "restrict")
    ELSE node

\* PgToKyselyConverter.applyForeignKey
applyForeignKey(colBuilder, constraint) ==
    LET targetTable == IF Has(constraint, "pktable") THEN constraint.pktable.relname ELSE ""
        targetColumn == IF Has(constraint, "pk_attrs") /\ Len(constraint.pk_attrs) > 0
                        THEN constraint.pk_attrs[1] ELSE ""
    IN  IF targetTable = "" \/ targetColumn = "" THEN colBuilder
        ELSE Put(colBuilder, "references",
                 KyselyAction(KyselyAction([table |-> targetTable, column |-> targetColumn],
                                           constraint, "fk_del_action", "onDelete"),
                              constraint, "fk_upd_action", "onUpdate"))

\* PgToKyselyConverter.applyColumnConstraint
applyColumnConstraint(colBuilder, constraint, isSerial) ==
    CASE constraint.contype = "CONSTR_PRIMARY" ->
            IF isSerial
            THEN [colBuilder EXCEPT !.primaryKey = TRUE, !.autoIncrement = TRUE]
            ELSE [colBuilder EXCEPT !.primaryKey = TRUE]
      [] constraint.contype = "CONSTR_NOTNULL" -> [colBuilder EXCEPT !.notNull = TRUE]
      [] constraint.contype = "CONSTR_UNIQUE" -> [colBuilder EXCEPT !.unique = TRUE]
      [] constraint.contype = "CONSTR_DEFAULT" ->
            Put(colBuilder, "defaultTo",
                extractDefaultValue(IF Has(constraint, "raw_expr")
                                    THEN constraint.raw_expr ELSE Undefined))
      [] constraint.contype = "CONSTR_FOREIGN" -> applyForeignKey(colBuilder, constraint)
      [] OTHER -> colBuilder

RECURSIVE applyColumnConstraints(_, _, _, _)
applyColumnConstraints(colBuilder, constraints, i, isSerial) ==
    IF i > Len(constraints) THEN colBuilder
    ELSE applyColumnConstraints(
            applyColumnConstraint(colBuilder, constraints[i], isSerial),
            constraints, i + 1, isSerial)

\* columnDef.constraints?.some(c => c.Constraint?.contype === 'CONSTR_PRIMARY')
HasPrimary(columnDef) ==
    \E i \in DOMAIN columnDef.constraints :
        columnDef.constraints[i].contype = "CONSTR_PRIMARY"

\* PgToKyselyConverter.addColumn: the column node
KyselyAddColumn(columnDef) ==
    LET pgType == KyselyExtractTypeName(TypeNameOf(columnDef))
        col == [name |-> ColName(columnDef), dataType |-> KyselyMapType(pgType),
                primaryKey |-> FALSE, autoIncrement |-> FALSE,
                notNull |-> FALSE, unique |-> FALSE]
    IN  IF KyselyIsSerialType(pgType) /\ HasPrimary(columnDef)
        THEN [col EXCEPT !.primaryKey = TRUE, !.autoIncrement = TRUE]
        ELSE applyColumnConstraints(col, columnDef.constraints, 1,
                                    KyselyIsSerialType(pgType))

\* columns.join('_')
RECURSIVE JoinUnderscore(_)
JoinUnderscore(columns) ==
    IF Len(columns) = 0 THEN ""
    ELSE IF Len(columns) = 1 THEN columns[1]
    ELSE columns[1] \o "_" \o JoinUnderscore(Tail(columns))

\* the name and the columns of a table-level constraint
ConstraintName(constraint, prefix, columns) ==
    IF Has(constraint, "conname") /\ constraint.conname # "" THEN constraint.conname
    ELSE prefix \o JoinUnderscore(columns)
AttrList(constraint, field) ==
    IF Has(constraint, field) THEN NameParts(constraint[field]) ELSE <<>>

\* PgToKyselyConverter.addTableConstraint: the constraint node, <<>> for a
\* kind that adds none
addTableConstraint(constraint) ==
    CASE constraint.contype = "CONSTR_PRIMARY" ->
            <<[kind |-> "primary key",
               name |-> ConstraintName(constraint, "pk_", AttrList(constraint, "keys")),
               columns |-> AttrList(constraint, "keys")]>>
      [] constraint.contype = "CONSTR_UNIQUE" ->
            <<[kind |-> "unique",
               name |-> ConstraintName(constraint, "unique_", AttrList(constraint, "keys")),
               columns |-> AttrList(constraint, "keys")]>>
      [] constraint.contype = "CONSTR_FOREIGN" ->
            <<(IF Has(constraint, "fk_upd_action") /\ constraint.fk_upd_action = "c"
               THEN [onUpdate |-> "cascade"] ELSE <<>>)
              @@ (IF Has(constraint, "fk_del_action") /\ constraint.fk_del_action = "c"
                  THEN [onDelete |-> "cascade"] ELSE <<>>)
              @@ [kind |-> "foreign key",
                  name |-> ConstraintName(constraint, "fk_", AttrList(constraint, "fk_attrs")),
                  columns |-> AttrList(constraint, "fk_attrs"),
                  targetTable |-> IF Has(constraint, "pktable")
                                  THEN constraint.pktable.relname ELSE "",
                  targetColumns |-> AttrList(constraint, "pk_attrs")]>>
      [] OTHER -> <<>>

\* PgToKyselyConverter.convertCreateStmt: the table node; the constraints
\* follow the columns
KyselyConvertCreateStmt(createStmt) ==
    LET columnDefs == SelectSeq(createStmt.tableElts, LAMBDA e : Has(e, "ColumnDef"))
        tableConstraints ==
            SelectSeq(createStmt.tableElts,
                      LAMBDA e : ~Has(e, "ColumnDef") /\ Has(e, "Constraint"))
    IN  [table |-> createStmt.relation.relname,
         ifNotExists |-> Has(createStmt, "if_not_exists") /\ createStmt.if_not_exists,
         columns |-> [i \in DOMAIN columnDefs |-> KyselyAddColumn(columnDefs[i].ColumnDef)],
         constraints |->
            Flatten([i \in DOMAIN tableConstraints |->
                        addTableConstraint(tableConstraints[i].Constraint)])]

\* PgToKyselyConverter.convertIndexStmt
convertIndexStmt(indexStmt) ==
    [index |-> indexStmt.idxname, table |-> indexStmt.relation.relname,
     unique |-> Has(indexStmt, "unique") /\ indexStmt.unique,
     columns |-> <<indexStmt.column>>]

\* poc-kysely/src/index.ts translate(), from the parsed statements on: one
\* node per CREATE TABLE and CREATE INDEX, other statements only warned about
NoOutput == [status |-> "none"]
translate(stmts) ==
    IF Len(stmts) = 0 THEN [status |-> "error", message |-> "No statements to translate"]
    ELSE [status |-> "ok",
          results |->
             Flatten([i \in DOMAIN stmts |->
                 IF Has(stmts[i], "CreateStmt")
                 THEN <<KyselyConvertCreateStmt(stmts[i].CreateStmt)>>
                 ELSE IF Has(stmts[i], "IndexStmt")
                 THEN <<convertIndexStmt(stmts[i].IndexStmt)>>
                 ELSE <<>>])]

----------------------------------------------------------------------------
(* Input documents *)

IVal(n) == [A_Const |-> [ival |-> IF n = 0 THEN <<>> ELSE [ival |-> n]]]
SVal(str) == [A_Const |-> [sval |-> [sval |-> str]]]
ColRef(col) == [ColumnRef |-> [fields |-> <<col>>]]
OpExpr(op, col, n) ==
    [A_Expr |-> [kind |-> "AEXPR_OP", name |-> <<op>>, lexpr |-> ColRef(col),
                 rexpr |-> IVal(n)]]

NotNull == [contype |-> "CONSTR_NOTNULL"]
PrimaryKey == [contype |-> "CONSTR_PRIMARY"]
Unique == [contype |-> "CONSTR_UNIQUE"]
Default(expr) == [contype |-> "CONSTR_DEFAULT", raw_expr |-> expr]
Check(expr) == [contype |-> "CONSTR_CHECK", raw_expr |-> expr]
NowCall == [FuncCall |-> [funcname |-> <<"now">>, args |-> <<>>]]
\* REFERENCES table [(col)] [ON DELETE del] [ON UPDATE upd]; "" is a field
\* the node does not carry
References(table, col, del, upd) ==
    LET n0 == [contype |-> "CONSTR_FOREIGN", pktable |-> [relname |-> table]]
        n1 == IF col # "" THEN Put(n0, "pk_attrs", <<col>>) ELSE n0
        n2 == IF del # "" THEN Put(n1, "fk_del_action", del) ELSE n1
    IN  IF upd # "" THEN Put(n2, "fk_upd_action", upd) ELSE n2

ColumnConstraints(col) ==
    { NotNull, PrimaryKey, Unique,
      Default(SVal("sad")), Default(NowCall),
      Check(OpExpr(">=", col, 0)),
      References("users", "id", "", ""),
      References("users", "id", "a", "a"),
      References("users", "id", "c", "a"),
      References("users", "id", "a", "r"),
      References("users", "", "a", "a") }

RECURSIVE SeqsUpTo(_, _)
SeqsUpTo(S, n) ==
    IF n = 0 THEN {<<>>}
    ELSE LET shorter == SeqsUpTo(S, n - 1)
         IN  shorter \cup {Append(sq, x) : sq \in {t \in shorter : Len(t) = n - 1}, x \in S}

ArrayBounds == {[i \in 1..k |-> -1] : k \in 0..MaxArrayDepth}

ScalarTypes ==
    { [names |-> <<"pg_catalog", "int4">>, typmods |-> <<>>],
      [names |-> <<"pg_catalog", "varchar">>, typmods |-> <<50>>],
      [names |-> <<"pg_catalog", "timestamp">>, typmods |-> <<>>],
      [names |-> <<"pg_catalog", "numeric">>, typmods |-> <<10, 2>>],
      [names |-> <<"pg_catalog", "bool">>, typmods |-> <<>>],
      [names |-> <<"pg_catalog", "json">>, typmods |-> <<>>],
      [names |-> <<"serial">>, typmods |-> <<>>],
      [names |-> <<"mood">>, typmods |-> <<>>],
      [names |-> <<"Mood">>, typmods |-> <<>>],
      [names |-> <<"public", "mood">>, typmods |-> <<>>] }

TypeNames ==
    { [names |-> ty.names, typmods |-> ty.typmods, arrayBounds |-> ab] :
        ty \in ScalarTypes, ab \in ArrayBounds }

\* a column c of any type of the model, with at most one constraint
RichColumns ==
    { [colname |-> "c", typeName |-> ty, constraints |-> cs] :
        ty \in TypeNames, cs \in SeqsUpTo(ColumnConstraints("c"), 1) }

\* a column c of a scalar or an enum type, with any constraint sequence
ConstrainedColumns ==
    { [colname |-> "c",
       typeName |-> [names |-> nm, typmods |-> <<>>, arrayBounds |-> <<>>],
       constraints |-> cs] :
        nm \in {<<"pg_catalog", "int4">>, <<"mood">>},
        cs \in SeqsUpTo(ColumnConstraints("c"), MaxConstraints) }

Int4 == [names |-> <<"pg_catalog", "int4">>, typmods |-> <<>>, arrayBounds |-> <<>>]

\* plain integer columns for the tables of several columns
PlainConstraints ==
    {<<>>, <<NotNull>>, <<PrimaryKey>>, <<PrimaryKey, NotNull>>, <<NotNull, PrimaryKey>>}
PlainNames == {"id", "c", "d"}
RECURSIVE PlainColumnSeqs(_)
PlainColumnSeqs(n) ==
    IF n = 0 THEN {<<>>}
    ELSE {Append(sq, [colname |-> nm, typeName |-> Int4, constraints |-> cs]) :
            sq \in {t \in PlainColumnSeqs(n - 1) : Len(t) = n - 1},
            nm \in PlainNames, cs \in PlainConstraints}
         \cup PlainColumnSeqs(n - 1)
DistinctNames(cols) ==
    \A i, j \in DOMAIN cols : cols[i].colname = cols[j].colname => i = j

Table(name, cols) ==
    [CreateStmt |-> [relation |-> [relname |-> name],
                     tableElts |-> [i \in DOMAIN cols |-> [ColumnDef |-> cols[i]]]]]

UsersTable ==
    Table("users", <<[colname |-> "id", typeName |-> Int4, constraints |-> <<PrimaryKey>>]>>)

MoodValues == <<"sad", "ok", "happy">>
CreateEnum(typeName) == [CreateEnumStmt |-> [typeName |-> typeName, vals |-> MoodValues]]

\* where the document declares its enum: nowhere, before or after the tables
EnumPlacements ==
    { [before |-> <<>>, after |-> <<>>],
      [before |-> <<CreateEnum(<<"mood">>)>>, after |-> <<>>],
      [before |-> <<>>, after |-> <<CreateEnum(<<"mood">>)>>],
      [before |-> <<CreateEnum(<<"public", "mood">>)>>, after |-> <<>>] }

\* table-level constraints: PRIMARY KEY (c, d), UNIQUE (c, d) and
\* FOREIGN KEY (c) REFERENCES users (id)
TableConstraints ==
    { [contype |-> "CONSTR_PRIMARY", keys |-> <<"c", "d">>],
      [contype |-> "CONSTR_UNIQUE", keys |-> <<"c", "d">>],
      [contype |-> "CONSTR_FOREIGN", fk_attrs |-> <<"c">>,
       pktable |-> [relname |-> "users"], pk_attrs |-> <<"id">>] }

CreateSeq == [CreateSeqStmt |-> [sequence |-> [relname |-> "s"]]]

\* documents with a table-level constraint or a CREATE SEQUENCE statement
UnrepresentableDocs ==
    { <<UsersTable,
        [CreateStmt |->
            [relation |-> [relname |-> "t"],
             tableElts |->
                <<[ColumnDef |-> [colname |-> "c", typeName |-> Int4,
                                  constraints |-> <<NotNull>>]],
                  [ColumnDef |-> [colname |-> "d", typeName |-> Int4,
                                  constraints |-> <<>>]],
                  [Constraint |-> tc]>>]]>> : tc \in TableConstraints }
    \cup { <<CreateSeq, UsersTable>>, <<UsersTable, CreateSeq>> }

\* column definitions that lack their name or their type
MalformedColumns ==
    { [typeName |-> Int4, constraints |-> cs] : cs \in {<<>>, <<NotNull>>} }
    \cup { [colname |-> "c", constraints |-> cs] : cs \in {<<>>, <<NotNull>>} }

\* f(arg) as a default expression
Call(f, arg) == [FuncCall |-> [funcname |-> <<f>>, args |-> <<SVal(arg)>>]]

\* two columns with computed defaults: nextval('a'), nextval('b'), now()
ComputedDefaults == {Call("nextval", "a"), Call("nextval", "b"), NowCall}
DefaultDocs ==
    { <<Table("t", <<[colname |-> "c", typeName |-> Int4, constraints |-> <<Default(e1)>>],
                     [colname |-> "d", typeName |-> Int4, constraints |-> <<Default(e2)>>]>>)>> :
        e1 \in ComputedDefaults, e2 \in ComputedDefaults }

\* the documents of a process that translates several in a row: a column c
\* of type varchar(50), varchar or numeric(10, 2)
CallDocs ==
    { <<Table("t", <<[colname |-> "c",
                      typeName |-> [names |-> <<"pg_catalog", ty.name>>,
                                    typmods |-> ty.typmods, arrayBounds |-> <<>>],
                      constraints |-> <<>>]>>)>> :
        ty \in { [name |-> "varchar", typmods |-> <<50>>],
                 [name |-> "varchar", typmods |-> <<>>],
                 [name |-> "numeric", typmods |-> <<10, 2>>] } }

\* a AND b, a OR b and col IN (items) as the parser delivers them; the
\* operator name of an IN expression is "="
AndExpr(args) == [BoolExpr |-> [boolop |-> "AND_EXPR", args |-> args]]
OrExpr(args) == [BoolExpr |-> [boolop |-> "OR_EXPR", args |-> args]]
InExpr(col, items) ==
    [A_Expr |-> [kind |-> "AEXPR_IN", name |-> <<"=">>, lexpr |-> ColRef(col),
                 rexpr |-> [List |-> [items |-> items]]]]

\* comparisons of a column with a constant
Comparisons(cols, consts) ==
    { OpExpr(op, col, n) : op \in {">=", ">", "<=", "<", "="}, col \in cols, n \in consts }

\* the CHECK expressions of column c in a table t(c, d): comparisons of c or
\* d with a constant, conjunctions and disjunctions of two comparisons the
\* first of which is on c, and membership lists
CheckExprs ==
    Comparisons({"c", "d"}, {0, 10})
    \cup { AndExpr(<<x, y>>) : x \in Comparisons({"c"}, {0}),
                               y \in Comparisons({"c", "d"}, {10}) }
    \cup { OrExpr(<<x, y>>) : x \in Comparisons({"c"}, {0}),
                              y \in Comparisons({"c", "d"}, {10}) }
    \cup { InExpr(col, items) :
              col \in {"c", "d"},
              items \in { <<IVal(1), IVal(2)>>, <<SVal("x"), SVal("y")>>,
                          <<IVal(1), ColRef("d")>> } }

\* t(c <type> CHECK (expr), d integer) with c of an integer, a numeric or a
\* text type
CheckDocs ==
    { <<Table("t", <<[colname |-> "c",
                      typeName |-> [names |-> <<"pg_catalog", nm>>, typmods |-> <<>>,
                                    arrayBounds |-> <<>>],
                      constraints |-> <<Check(e)>>],
                     [colname |-> "d", typeName |-> Int4, constraints |-> <<>>]>>)>> :
        nm \in {"int4", "numeric", "text"}, e \in CheckExprs }

\* t(c serial ...) with PRIMARY KEY, NOT NULL and REFERENCES users(id) ON
\* DELETE CASCADE, two or three of them, written in every order
ClauseOrderDocs ==
    { <<UsersTable,
        Table("t", <<[colname |-> "c",
                      typeName |-> [names |-> <<"serial">>, typmods |-> <<>>,
                                    arrayBounds |-> <<>>],
                      constraints |-> cs]>>)>> :
        cs \in { sq \in SeqsUpTo({PrimaryKey, NotNull, References("users", "id", "c", "")}, 3) :
                    Len(sq) >= 2 /\ \A i, j \in DOMAIN sq : sq[i] = sq[j] => i = j } }

\* the action codes of a foreign key; "" is a code the node does not carry
FkCodes == {"", "a", "c", "n", "d", "r"}

\* the documents handed to the Kysely translator as well: users(id) and
\* t(c ...) with one REFERENCES constraint of every pair of actions, or c
\* integer / serial with any sequence of inline constraints, and the
\* documents with table-level constraints
KyselyConstraints ==
    { PrimaryKey, NotNull, Unique, Default(IVal(1)), Default(NowCall),
      References("users", "id", "c", "") }
KyselyDocs ==
    { <<UsersTable,
        Table("t", <<[colname |-> "c", typeName |-> Int4,
                      constraints |-> <<References("users", "id", del, upd)>>]>>)>> :
        del \in FkCodes, upd \in FkCodes }
    \cup
    { <<UsersTable,
        Table("t", <<[colname |-> "c",
                      typeName |-> [names |-> nm, typmods |-> <<>>, arrayBounds |-> <<>>],
                      constraints |-> cs]>>)>> :
        nm \in {<<"pg_catalog", "int4">>, <<"serial">>},
        cs \in SeqsUpTo(KyselyConstraints, MaxConstraints) }
    \cup UnrepresentableDocs

\* The documents handed to convert() and deparse(). Column names in a table
\* are distinct, as PostgreSQL requires.
Documents ==
    UnrepresentableDocs \cup DefaultDocs \cup CallDocs \cup CheckDocs
    \cup ClauseOrderDocs
    \cup
    { <<Table("t", <<col>>)>> : col \in MalformedColumns }
    \cup
    { e.before \o <<UsersTable, Table("t", <<col>>)>> \o e.after :
        e \in EnumPlacements, col \in RichColumns }
    \cup
    { <<CreateEnum(<<"mood">>), UsersTable, Table("t", <<col>>)>> :
        col \in ConstrainedColumns }
    \cup
    { <<Table("t", cols)>> :
        cols \in {cs \in PlainColumnSeqs(MaxColumns) : Len(cs) >= 2 /\ DistinctNames(cs)} }

----------------------------------------------------------------------------
(* Input schema documents of jsonSchemaToSqlite: structural elements only  *)

Ref(table, col) == ("$ref" :> RefPath(table, col))

ColumnProps ==
    { [type |-> "integer"], [type |-> "string"], [type |-> "number"],
      ("$index" :> JsStr("unique")) @@ [type |-> "string"],
      ("$index" :> JsBool(TRUE)) @@ [type |-> "integer"],
      ("$primaryKey" :> TRUE) @@ [type |-> "integer"],
      ("$primaryKey" :> TRUE) @@ [type |-> "string"],
      Ref("users", "id"),
      ("$onDelete" :> "cascade") @@ Ref("users", "id"),
      ("$onDelete" :> "no action") @@ ("$onUpdate" :> "set null") @@ Ref("users", "id"),
      Ref("t", "c"), Ref("t", "d"), Ref("ghost", "id"),
      ("default" :> JsNum(0)) @@
          [type |-> "integer", minimum |-> 0, maximum |-> 5, multipleOf |-> 1],
      ("$default" :> "now()") @@
          [type |-> "string", enum |-> <<JsStr("a")>>, pattern |-> "^a", maxLength |-> 5] }

ColNames == <<"c", "d", "order", "my col">>

RECURSIVE PropSeqs(_)
PropSeqs(n) ==
    IF n = 0 THEN {<<>>}
    ELSE {Append(sq, [key |-> ColNames[n], val |-> p]) :
            sq \in {t \in PropSeqs(n - 1) : Len(t) = n - 1}, p \in ColumnProps}
         \cup PropSeqs(n - 1)

TableSchema(props, required) ==
    [type |-> "object", additionalProperties |-> FALSE,
     properties |-> props, required |-> required]

\* users(id) with an integer or a text key, and t with 1..MaxColumns columns
\* that are all required or all optional
SchemaDocs ==
    { ("$schema" :> "https://example.com/postgres-json-schema.json") @@
      [type |-> "object",
       properties |->
          <<[key |-> "users",
             val |-> TableSchema(<<[key |-> "id",
                                    val |-> ("$primaryKey" :> TRUE) @@ [type |-> idType]]>>,
                                 <<>>)],
            [key |-> "t",
             val |-> TableSchema(props,
                                 IF allRequired
                                 THEN [i \in DOMAIN props |-> props[i].key] ELSE <<>>)]>>] :
        idType \in {"integer", "string"},
        props \in {ps \in PropSeqs(MaxColumns) : Len(ps) >= 1},
        allRequired \in BOOLEAN }

----------------------------------------------------------------------------
(* debugger/src/components/OutputPanel.tsx                                *)
(* Texts are strings; '' is the empty text. generate() runs up to its      *)
(* first await when the button is clicked and from there on when the       *)
(* awaited translation settles.                                            *)

Tabs == {"sqlite", "json-schema", "parser-ast"}
EmptyTabState == [result |-> "", error |-> ""]

\* the texts the editor can hold: a statement the parser accepts and one it
\* rejects
ValidSql == "CREATE TABLE t (c INTEGER);"
PanelInputs == {ValidSql, "CREATE TABLE"}

\* the useState() initial values
PanelMounted ==
    /\ inputSql = ValidSql
    /\ tab = "sqlite"
    /\ tabStates = [t \in Tabs |-> EmptyTabState]
    /\ loading = FALSE
    /\ sqliteFromSchema = ""
    /\ inflight = {}
    /\ settled = [status |-> "none"]

\* what the awaited call of a tab resolves to
Output(t) ==
    CASE t = "parser-ast" -> "{ \"stmts\": [...] }"
      [] t = "json-schema" -> "{ \"$schema\": ... }"
      [] OTHER -> "CREATE TABLE t (c INTEGER) STRICT;"

\* sql-formatter's format(): formatted text stays as it is
format(text) ==
    IF text = Output("sqlite") THEN "CREATE TABLE t (\n  c INTEGER\n) STRICT;" ELSE text

\* the parent hands down another text
EditSql ==
    /\ \E text \in PanelInputs \ {inputSql} : inputSql' = text
    /\ UNCHANGED <<tab, tabStates, loading, sqliteFromSchema, inflight, settled>>
    /\ UNCHANGED translatorVars

\* onClick={() => setTab(t.id)}
SetTab ==
    /\ \E t \in Tabs \ {tab} : tab' = t
    /\ UNCHANGED <<inputSql, tabStates, loading, sqliteFromSchema, inflight, settled>>
    /\ UNCHANGED translatorVars

\* generate() without setLoading(true): the faulty variant that C30 detects
GenerateWithoutLoading ==
    /\ ~loading
    /\ tabStates' = [tabStates EXCEPT ![tab] = EmptyTabState]
    /\ sqliteFromSchema' = IF tab = "json-schema" THEN "" ELSE sqliteFromSchema
    /\ inflight' = inflight \cup {[tab |-> tab, sql |-> inputSql]}
    /\ UNCHANGED <<inputSql, tab, loading, settled>>
    /\ UNCHANGED translatorVars

\* a click on Generate, which is disabled while loading: generate() up to
\* its await, with the tab and the text of this render
Generate ==
    /\ ~loading
    /\ loading' = TRUE
    /\ tabStates' = [tabStates EXCEPT ![tab] = EmptyTabState]
    /\ sqliteFromSchema' = IF tab = "json-schema" THEN "" ELSE sqliteFromSchema
    /\ inflight' = inflight \cup {[tab |-> tab, sql |-> inputSql]}
    /\ UNCHANGED <<inputSql, tab, settled>>
    /\ UNCHANGED translatorVars

\* the rest of generate() writing to the tab selected when the translation
\* settles: the faulty variant that C29 detects
SettleIntoSelectedTab ==
    \E g \in inflight :
        /\ IF g.sql = ValidSql
           THEN \E formatted, derived \in BOOLEAN :
                   /\ tabStates' =
                         [tabStates EXCEPT ![tab] =
                             [result |-> IF g.tab = "sqlite" /\ formatted
                                         THEN format(Output(g.tab)) ELSE Output(g.tab),
                              error |-> ""]]
                   /\ sqliteFromSchema' =
                         IF g.tab = "json-schema" /\ derived
                         THEN Output("sqlite") ELSE sqliteFromSchema
           ELSE /\ tabStates' =
                      [tabStates EXCEPT ![tab] = [result |-> "", error |-> "syntax error"]]
                /\ UNCHANGED sqliteFromSchema
        /\ loading' = FALSE
        /\ inflight' = inflight \ {g}
        /\ settled' = [status |-> "settled", tab |-> g.tab, selected |-> tab]
        /\ UNCHANGED <<inputSql, tab>>
        /\ UNCHANGED translatorVars

\* the awaited translation of a call settles and generate() runs to its
\* end: the text the call was made with parses or not, format() and
\* jsonSchemaToSqlite() return or throw (and are then ignored)
Settle ==
    \E g \in inflight :
        /\ IF g.sql = ValidSql
           THEN \E formatted, derived \in BOOLEAN :
                   /\ tabStates' =
                         [tabStates EXCEPT ![g.tab] =
                             [result |-> IF g.tab = "sqlite" /\ formatted
                                         THEN format(Output(g.tab)) ELSE Output(g.tab),
                              error |-> ""]]
                   /\ sqliteFromSchema' =
                         IF g.tab = "json-schema" /\ derived
                         THEN Output("sqlite") ELSE sqliteFromSchema
           ELSE /\ tabStates' =
                      [tabStates EXCEPT ![g.tab] = [result |-> "", error |-> "syntax error"]]
                /\ UNCHANGED sqliteFromSchema
        /\ loading' = FALSE
        /\ inflight' = inflight \ {g}
        /\ settled' = [status |-> "settled", tab |-> g.tab, selected |-> tab]
        /\ UNCHANGED <<inputSql, tab>>
        /\ UNCHANGED translatorVars

\* a click on Format, which is rendered on the sqlite tab when it shows a
\* result and no error
handleFormat ==
    /\ tab = "sqlite"
    /\ tabStates[tab].error = ""
    /\ tabStates[tab].result # ""
    /\ tabStates' = [tabStates EXCEPT !["sqlite"].result = format(tabStates[tab].result)]
    /\ UNCHANGED <<inputSql, tab, loading, sqliteFromSchema, inflight, settled>>
    /\ UNCHANGED translatorVars

----------------------------------------------------------------------------
(* The calls *)

NoDdl == [status |-> "none"]

Init ==
    /\ \/ ast \in Documents /\ schema = Null
       \/ ast = <<>> /\ schema \in SchemaDocs
    /\ sqlite = <<>>
    /\ ddl = NoDdl
    /\ firstDdl = NoDdl
    /\ done = {}
    /\ typeTable = TYPE_MAP
    /\ calls = 1
    /\ seen = {}
    /\ kysely = NoOutput
    /\ PanelMounted

\* schema := convert(sql), sql being the text of ast
Convert ==
    /\ ast # <<>>
    /\ "convert" \notin done
    /\ schema' = convert(ast)
    /\ typeTable' = TableAfter(typeTable, MappedColumns(ast), 1)
    /\ done' = done \cup {"convert"}
    /\ UNCHANGED <<ast, sqlite, ddl, firstDdl, calls, seen>>
    /\ UNCHANGED <<kysely, panelVars>>

\* sqlite := deparse(ast)
Deparse ==
    /\ ast # <<>>
    /\ "deparse" \notin done
    /\ sqlite' = deparse(ast)
    /\ done' = done \cup {"deparse"}
    /\ UNCHANGED <<ast, schema, ddl, firstDdl, typeTable, calls, seen>>
    /\ UNCHANGED <<kysely, panelVars>>

\* ddl := jsonSchemaToSqlite(schema)
JsonSchemaToSqlite ==
    /\ schema # Null
    /\ "render" \notin done
    /\ ddl' = jsonSchemaToSqlite(schema)
    /\ done' = done \cup {"render"}
    /\ UNCHANGED <<ast, schema, sqlite, firstDdl, typeTable, calls, seen>>
    /\ UNCHANGED <<kysely, panelVars>>

\* the round trip's second leg: the emitted DDL is parsed, as convert(ddl)
\* does first; firstDdl keeps the rendering and the schema it came from
Reparse ==
    /\ "render" \in done
    /\ ddl.status = "ok"
    /\ firstDdl = NoDdl
    /\ LET parsed == ParseDdl(ddl.text)
       IN  IF parsed.ok
           THEN /\ ast' = parsed.stmts
                /\ schema' = Null
                /\ sqlite' = <<>>
                /\ ddl' = NoDdl
                /\ firstDdl' = [status |-> "ok", text |-> ddl.text, of |-> schema]
                /\ done' = {}
           ELSE /\ firstDdl' = [status |-> "syntax error"]
                /\ UNCHANGED <<ast, schema, sqlite, ddl, done>>
    /\ UNCHANGED <<typeTable, calls, seen>>
    /\ UNCHANGED <<kysely, panelVars>>

\* the process is handed its next document once the current one has been
\* through convert(), deparse() and jsonSchemaToSqlite(); module state stays
NextDocument ==
    /\ ast \in CallDocs
    /\ done = {"convert", "deparse", "render"}
    /\ firstDdl = NoDdl
    /\ calls < MaxCalls
    /\ \E doc \in CallDocs : ast' = doc
    /\ seen' = seen \cup {[ast |-> ast, schema |-> schema, sqlite |-> sqlite, ddl |-> ddl]}
    /\ calls' = calls + 1
    /\ schema' = Null
    /\ sqlite' = <<>>
    /\ ddl' = NoDdl
    /\ done' = {}
    /\ UNCHANGED <<firstDdl, typeTable>>
    /\ UNCHANGED <<kysely, panelVars>>

Next == Convert \/ Deparse \/ JsonSchemaToSqlite \/ Reparse \/ NextDocument

Spec == Init /\ [][Next]_vars

\* kysely := translate(sql) of poc-kysely
Translate ==
    /\ ast # <<>>
    /\ "translate" \notin done
    /\ kysely' = translate(ast)
    /\ done' = done \cup {"translate"}
    /\ UNCHANGED <<ast, schema, sqlite, ddl, firstDdl, typeTable, calls, seen>>
    /\ UNCHANGED panelVars

\* nothing has been translated yet
Untranslated ==
    /\ schema = Null
    /\ sqlite = <<>>
    /\ ddl = NoDdl
    /\ firstDdl = NoDdl
    /\ done = {}
    /\ typeTable = TYPE_MAP
    /\ calls = 1
    /\ seen = {}
    /\ kysely = NoOutput

\* one document handed to the three translators of a PG AST
KyselyInit == ast \in KyselyDocs /\ Untranslated /\ PanelMounted
KyselyNext == Convert \/ Deparse \/ Translate
KyselySpec == KyselyInit /\ [][KyselyNext]_vars

\* the OutputPanel from its mounting on
PanelInit == ast = <<>> /\ Untranslated /\ PanelMounted
PanelNext == EditSql \/ SetTab \/ Generate \/ Settle \/ handleFormat
PanelSpec == PanelInit /\ [][PanelNext]_vars

----------------------------------------------------------------------------
(* Properties *)

\* the columns of the tables of a document: [table, idx, col]
\* (the table elements that are column definitions with a name and a type)
WellFormed(elt) ==
    Has(elt, "ColumnDef") /\ Has(elt.ColumnDef, "colname") /\ Has(elt.ColumnDef, "typeName")
ColumnsOf(stmts) ==
    UNION { { [table |-> stmts[i].CreateStmt.relation.relname, idx |-> j,
               col |-> stmts[i].CreateStmt.tableElts[j].ColumnDef] :
                j \in {e \in DOMAIN stmts[i].CreateStmt.tableElts :
                          WellFormed(stmts[i].CreateStmt.tableElts[e])} } :
            i \in {k \in DOMAIN stmts : Has(stmts[k], "CreateStmt")} }
HasConstraint(col, contype) ==
    \E i \in DOMAIN col.constraints : col.constraints[i].contype = contype

\* the property convert() emitted for a column, and its table's required
PropOf(sch, tc) == OGet(OGet(sch.properties, tc.table).properties, tc.col.colname)
RequiredOf(sch, tc) == SeqSet(OGet(sch.properties, tc.table).required)

\* the tokens deparse() emitted for a column
LineIn(out, tc) == LET i == CHOOSE i \in DOMAIN out : out[i][1][2] = tc.table
                   IN  out[i][tc.idx + 1]

C2_ForeignKeyIsRefOnly ==
    "convert" \in done =>
        \A tc \in ColumnsOf(ast) :
            HasConstraint(tc.col, "CONSTR_FOREIGN")
                => /\ Has(PropOf(schema, tc), "$ref")
                   /\ MatchRef(PropOf(schema, tc)["$ref"]) # <<>>
                   /\ DOMAIN PropOf(schema, tc) \cap {"type", "format", "maxLength"} = {}

\* the foreign keys of a column all leave the action of field out or give 'a'
NoActionOn(col, field) ==
    /\ HasConstraint(col, "CONSTR_FOREIGN")
    /\ \A i \in DOMAIN col.constraints :
          col.constraints[i].contype = "CONSTR_FOREIGN"
              => \/ ~Has(col.constraints[i], field)
                 \/ col.constraints[i][field] \in {"", "a"}

\* C3: a column whose foreign keys have no ON DELETE (ON UPDATE) action, or
\* NO ACTION, gets no `$onDelete` (`$onUpdate`) key from convert() and no
\* ON DELETE (ON UPDATE) text from deparse().
C3_NoActionNoClause ==
    \A tc \in ColumnsOf(ast) :
        /\ ("convert" \in done /\ NoActionOn(tc.col, "fk_del_action"))
              => ~Has(PropOf(schema, tc), "$onDelete")
        /\ ("convert" \in done /\ NoActionOn(tc.col, "fk_upd_action"))
              => ~Has(PropOf(schema, tc), "$onUpdate")
        /\ ("deparse" \in done /\ NoActionOn(tc.col, "fk_del_action"))
              => "ON DELETE" \notin SeqSet(LineIn(sqlite, tc))
        /\ ("deparse" \in done /\ NoActionOn(tc.col, "fk_upd_action"))
              => "ON UPDATE" \notin SeqSet(LineIn(sqlite, tc))

\* a foreign key with ON DELETE NO ACTION and ON UPDATE RESTRICT went through
\* both translators: the update clause is there, the delete clause is not
C3_Witness ==
    /\ {"convert", "deparse"} \subseteq done
    /\ \E tc \in ColumnsOf(ast) :
          /\ tc.col.constraints = <<References("users", "id", "a", "r")>>
          /\ PropOf(schema, tc)["$onUpdate"] = "restrict"
          /\ ~Has(PropOf(schema, tc), "$onDelete")
          /\ "ON UPDATE" \in SeqSet(LineIn(sqlite, tc))
          /\ "ON DELETE" \notin SeqSet(LineIn(sqlite, tc))

\* the number of {type: 'array', items: ...} levels a property opens with
RECURSIVE ArrayLevels(_)
ArrayLevels(prop) ==
    IF Has(prop, "type") /\ prop.type = "array" /\ Has(prop, "items")
    THEN 1 + ArrayLevels(prop.items) ELSE 0

\* C4: after convert(), a column declared with k >= 1 array dimensions has a
\* property of exactly k nested array levels, whatever its element type.
\* (The columns with a REFERENCES constraint, whose `type` convert() deletes,
\* are the subject of C2 and are left out here.)
C4_ArrayNesting ==
    "convert" \in done =>
        \A tc \in ColumnsOf(ast) :
            (/\ Len(tc.col.typeName.arrayBounds) >= 1
             /\ ~HasConstraint(tc.col, "CONSTR_FOREIGN"))
                => ArrayLevels(PropOf(schema, tc)) = Len(tc.col.typeName.arrayBounds)

\* C5: jsonSchemaToSqlite returns on every document: a cyclic `$ref` chain is
\* rejected, never followed until the call stack is exhausted.
C5_CyclesRejected ==
    "render" \in done => ddl.status # "RangeError"

StructuralKeys == {"type", "$ref", "$primaryKey", "$index", "$onDelete", "$onUpdate"}

\* a document of tables, columns, keys, references, not-null and indexes only
StructuralOnly(sch) ==
    /\ ~Has(sch, "$defs")
    /\ \A i \in DOMAIN sch.properties :
          \A j \in DOMAIN sch.properties[i].val.properties :
              LET prop == sch.properties[i].val.properties[j].val
              IN  /\ DOMAIN prop \subseteq StructuralKeys
                  /\ Has(prop, "type") => prop.type \in {"string", "integer", "number", "boolean"}

\* C6: for a structural document S, rendering, converting the rendering back
\* and rendering again gives the statements of the first rendering.
C6_RoundTripStable ==
    (/\ firstDdl.status = "ok"
     /\ StructuralOnly(firstDdl.of)
     /\ {"convert", "render"} \subseteq done)
        => ddl = [status |-> "ok", text |-> firstDdl.text]

\* C7: after convert(), no property holds both `default` and `$default`.
C7_OneDefaultKey ==
    "convert" \in done =>
        \A tc \in ColumnsOf(ast) :
            ~(Has(PropOf(schema, tc), "default") /\ Has(PropOf(schema, tc), "$default"))

\* the document with its CREATE TYPE statements moved to the front
EnumsFirst(stmts) ==
    SelectSeq(stmts, LAMBDA st : Has(st, "CreateEnumStmt"))
    \o SelectSeq(stmts, LAMBDA st : ~Has(st, "CreateEnumStmt"))

\* C8: convert() and deparse() give for a document what they give for the
\* same document with its enum declarations placed before the tables.
C8_EnumPositionIrrelevant ==
    /\ "convert" \in done => schema = convert(EnumsFirst(ast))
    /\ "deparse" \in done => sqlite = deparse(EnumsFirst(ast))

\* a table whose column uses an enum declared after the table went through
\* both translators and was treated as an enum column
C8_Witness ==
    /\ {"convert", "deparse"} \subseteq done
    /\ Len(ast) >= 2
    /\ Has(Last(ast), "CreateEnumStmt")
    /\ \E tc \in ColumnsOf(ast) :
          /\ tc.col.typeName.names = <<"mood">>
          /\ tc.col.typeName.arrayBounds = <<>>
          /\ PropOf(schema, tc)["$ref"] = "#/$defs/mood"
          /\ "IN" \in SeqSet(LineIn(sqlite, tc))

\* C9: after convert(), a column of a registered enum type has the property
\* {type: 'string', enum: <the values>} inline, and the document no `$defs`.
C9_EnumInline ==
    "convert" \in done =>
        \A tc \in ColumnsOf(ast) :
            (/\ OHas(BuildEnumRegistry(ast, 1, <<>>), extractTypeName(tc.col.typeName))
             /\ tc.col.typeName.arrayBounds = <<>>)
                => /\ ~Has(schema, "$defs")
                   /\ Has(PropOf(schema, tc), "type")
                   /\ PropOf(schema, tc).type = "string"
                   /\ Has(PropOf(schema, tc), "enum")
                   /\ PropOf(schema, tc).enum
                        = OGet(BuildEnumRegistry(ast, 1, <<>>), extractTypeName(tc.col.typeName))

\* CHECK (col IN ('v1', ...))
MembershipCheck(colname, vals) ==
    <<"CHECK", "(", colname, "IN", "(">>
    \o CommaSep([i \in DOMAIN vals |-> Quote(vals[i])]) \o <<")", ")">>

EndsWith(line, toks) ==
    /\ Len(line) >= Len(toks)
    /\ SubSeq(line, Len(line) - Len(toks) + 1, Len(line)) = toks

\* C10: after deparse(), a column whose type names a registered enum, in any
\* letter case and qualified or not, is TEXT with a CHECK of exactly the
\* enum's values, and the CREATE TYPE statements give no text.
C10_EnumColumnChecked ==
    "deparse" \in done =>
        /\ Len(sqlite) = Len(SelectSeq(ast, LAMBDA st : ~Has(st, "CreateEnumStmt")))
        /\ \A tc \in ColumnsOf(ast) :
              (/\ OHas(collectEnums(ast, 1, <<>>), LowerJoin(NameParts(tc.col.typeName.names)))
               /\ tc.col.typeName.arrayBounds = <<>>)
                  => /\ LineIn(sqlite, tc)[2] = "TEXT"
                     /\ EndsWith(LineIn(sqlite, tc),
                                 MembershipCheck(tc.col.colname,
                                    OGet(collectEnums(ast, 1, <<>>),
                                         LowerJoin(NameParts(tc.col.typeName.names)))))

\* the keys of the interfaces JsonSchema, TableSchema and PropertySchema
JsonSchemaKeys == {"$schema", "type", "$defs", "properties"}
TableSchemaKeys == {"type", "additionalProperties", "properties", "required"}
PropertySchemaKeys ==
    {"type", "format", "maxLength", "multipleOf", "minimum", "maximum", "enum",
     "pattern", "default", "$default", "$primaryKey", "$index", "$ref",
     "$onDelete", "$onUpdate", "items"}

\* the document has a statement that is neither CREATE TABLE nor CREATE TYPE,
\* or a table with a table-level constraint
Unrepresentable(stmts) ==
    \E i \in DOMAIN stmts :
        \/ ~Has(stmts[i], "CreateStmt") /\ ~Has(stmts[i], "CreateEnumStmt")
        \/ /\ Has(stmts[i], "CreateStmt")
           /\ \E j \in DOMAIN stmts[i].CreateStmt.tableElts :
                 Has(stmts[i].CreateStmt.tableElts[j], "Constraint")

\* the result carries something besides the schema's own keys
HasMarker(sch) ==
    \/ DOMAIN sch \ JsonSchemaKeys # {}
    \/ \E i \in DOMAIN sch.properties :
          \/ DOMAIN sch.properties[i].val \ TableSchemaKeys # {}
          \/ \E j \in DOMAIN sch.properties[i].val.properties :
                DOMAIN sch.properties[i].val.properties[j].val \ PropertySchemaKeys # {}

\* C11: when the document holds a construct the schema cannot represent (a
\* statement other than CREATE TABLE / CREATE TYPE, a table-level constraint),
\* the result of convert() carries a marker for it next to the schema.
C11_UnsupportedReported ==
    ("convert" \in done /\ Unrepresentable(ast)) => HasMarker(schema)

\* the column definitions of a document that lack their name or their type
MalformedIn(stmts) ==
    UNION { { stmts[i].CreateStmt.tableElts[j].ColumnDef :
                j \in {e \in DOMAIN stmts[i].CreateStmt.tableElts :
                          /\ Has(stmts[i].CreateStmt.tableElts[e], "ColumnDef")
                          /\ ~WellFormed(stmts[i].CreateStmt.tableElts[e])} } :
            i \in {k \in DOMAIN stmts : Has(stmts[k], "CreateStmt")} }

\* C12: convert() of a document with a column definition that lacks its name
\* or its type fails: it returns no schema.
C12_MalformedColumnFails ==
    ("convert" \in done /\ MalformedIn(ast) # {}) => ~Has(schema, "properties")

\* the column types a STRICT table allows
StrictTypes == {"INTEGER", "REAL", "TEXT", "BLOB", "ANY"}

\* C13: every CREATE TABLE deparse() emits ends with STRICT, and the type of
\* every column in it is one of INTEGER, REAL, TEXT, BLOB, ANY.
C13_StrictTables ==
    "deparse" \in done =>
        /\ \A i \in DOMAIN sqlite :
              sqlite[i][1][1] = "CREATE TABLE" => Last(Last(sqlite[i])) = "STRICT"
        /\ \A tc \in ColumnsOf(ast) : LineIn(sqlite, tc)[2] \in StrictTypes

\* the positions of the CHECK clauses of a column's text, and the tokens of
\* the clause that starts at j (up to the next clause or the end of the line)
CheckStarts(line) == {j \in DOMAIN line : line[j] = "CHECK"}
CheckClause(line, j) ==
    LET later == {k \in CheckStarts(line) : k > j}
        end == IF later = {} THEN Len(line)
               ELSE (CHOOSE k \in later : \A m \in later : k <= m) - 1
    IN  SubSeq(line, j, end)

\* CHECK ( col IS NULL OR ...
IsGuarded(clause, colname) ==
    /\ Len(clause) >= 4
    /\ SubSeq(clause, 1, 4) = <<"CHECK", "(", colname, "IS NULL OR">>

\* the columns whose CHECK clauses are all synthesized: the ones declared
\* without a CHECK constraint
SynthesizedOnly(stmts) ==
    {tc \in ColumnsOf(stmts) : ~HasConstraint(tc.col, "CONSTR_CHECK")}

\* C14 as claimed: every CHECK clause deparse() synthesizes for a column has
\* the form CHECK (col IS NULL OR ...).
C14_EveryCheckGuarded ==
    "deparse" \in done =>
        \A tc \in SynthesizedOnly(ast) :
            \A j \in CheckStarts(LineIn(sqlite, tc)) :
                IsGuarded(CheckClause(LineIn(sqlite, tc), j), tc.col.colname)

\* the functions of the format and JSON validations
ValidationFns == {"datetime", "date", "time", "json_valid"}

\* C14 as amended: the synthesized CHECK clauses that validate a timestamp,
\* date or time format, JSON or a JSON array have the form
\* CHECK (col IS NULL OR ...).
C14_FormatChecksGuarded ==
    "deparse" \in done =>
        \A tc \in SynthesizedOnly(ast) :
            \A j \in CheckStarts(LineIn(sqlite, tc)) :
                SeqSet(CheckClause(LineIn(sqlite, tc), j)) \cap ValidationFns # {}
                    => IsGuarded(CheckClause(LineIn(sqlite, tc), j), tc.col.colname)

\* a timestamp column and an array column were deparsed with their guarded
\* validation clause
C14_Witness ==
    /\ "deparse" \in done
    /\ \E tc \in SynthesizedOnly(ast) :
          /\ tc.col.typeName.names = <<"pg_catalog", "timestamp">>
          /\ tc.col.typeName.arrayBounds = <<>>
          /\ EndsWith(LineIn(sqlite, tc),
                      <<"CHECK", "(", "c", "IS NULL OR", "datetime", "(", "c", ")",
                        "IS", "c", ")">>)

\* the serial family
SerialFamily == {"serial", "serial4", "bigserial", "serial8", "smallserial", "serial2"}

\* C15: a column's text holds AUTOINCREMENT only when the column has an
\* inline PRIMARY KEY, its source type is of the serial family and the type
\* emitted for it is INTEGER.
C15_AutoincrementOnlyOnIntegerKey ==
    "deparse" \in done =>
        \A tc \in ColumnsOf(ast) :
            "AUTOINCREMENT" \in SeqSet(LineIn(sqlite, tc))
                => /\ HasConstraint(tc.col, "CONSTR_PRIMARY")
                   /\ toLowerCase(Last(tc.col.typeName.names)) \in SerialFamily
                   /\ LineIn(sqlite, tc)[2] = "INTEGER"

\* the tables of a schema document and their columns: [t, c] are the
\* positions of the table and of the column
SchemaColumns(sch) ==
    UNION { { [t |-> i, c |-> j, table |-> sch.properties[i].key,
               name |-> sch.properties[i].val.properties[j].key,
               prop |-> sch.properties[i].val.properties[j].val] :
                j \in DOMAIN sch.properties[i].val.properties } :
            i \in DOMAIN sch.properties }

\* the text jsonSchemaToSqlite emitted for a column
DdlLine(out, sc) == out.text[sc.t][sc.c + 1]

Contains(line, toks) ==
    \E k \in 1..(Len(line) - Len(toks) + 1) : SubSeq(line, k, k + Len(toks) - 1) = toks

\* the number of columns of a document: no chain without a cycle is longer
ColumnCount(sch) ==
    Len(Flatten([i \in DOMAIN sch.properties |-> sch.properties[i].val.properties]))

\* the property a reference chain ends at after at most n hops, Null when it
\* leaves the document or has not ended by then; m is the table and column
\* the next reference names
RECURSIVE ChainEnd(_, _, _), ChainStep(_, _, _)
ChainEnd(sch, prop, n) ==
    IF ~Has(prop, "$ref") THEN prop
    ELSE IF n = 0 THEN Null
    ELSE ChainStep(sch, MatchRef(prop["$ref"]), n)
ChainStep(sch, m, n) ==
    IF m = <<>> THEN Null
    ELSE IF /\ OHas(sch.properties, m[1])
            /\ OHas(OGet(sch.properties, m[1]).properties, m[2])
    THEN ChainEnd(sch, OGet(OGet(sch.properties, m[1]).properties, m[2]), n - 1)
    ELSE Null

\* the number of hops from prop to the end of its chain
RECURSIVE Hops(_, _, _)
Hops(sch, prop, n) ==
    IF ~Has(prop, "$ref") \/ n = 0 THEN 0
    ELSE LET m == MatchRef(prop["$ref"])
         IN  1 + Hops(sch, OGet(OGet(sch.properties, m[1]).properties, m[2]), n - 1)

SqliteTypeOf(jsonType) ==
    CASE jsonType = "integer" -> "INTEGER"
      [] jsonType = "boolean" -> "INTEGER"
      [] jsonType = "number" -> "REAL"
      [] OTHER -> "TEXT"

\* line is the text of a column that refers to table m[1], column m[2] and
\* whose chain ends at the property end: when end has a type, line has the
\* SQLite type of end and the REFERENCES clause of m
RefRendered(line, m, end) ==
    (m # <<>> /\ Has(end, "type"))
        => /\ line[2] = SqliteTypeOf(end.type)
           /\ Contains(line, <<"REFERENCES", q(m[1]), "(", q(m[2]), ")">>)

\* C16: in the text jsonSchemaToSqlite returns, a column whose `$ref` chain
\* ends, after any number of hops, at a property with a type has the SQLite
\* type of that property and a REFERENCES clause naming the table and column
\* its own `$ref` names.
C16_RefChainResolved ==
    ("render" \in done /\ ddl.status = "ok") =>
        \A sc \in SchemaColumns(schema) :
            Has(sc.prop, "$ref")
                => RefRendered(DdlLine(ddl, sc), MatchRef(sc.prop["$ref"]),
                               ChainEnd(schema, sc.prop, ColumnCount(schema)))

\* a column two hops from an integer key was rendered INTEGER with a
\* REFERENCES clause naming the column one hop away
C16_Witness ==
    /\ "render" \in done
    /\ ddl.status = "ok"
    /\ \E sc \in SchemaColumns(schema) :
          /\ Has(sc.prop, "$ref")
          /\ Has(ChainEnd(schema, sc.prop, ColumnCount(schema)), "type")
          /\ Hops(schema, sc.prop, ColumnCount(schema)) >= 2
          /\ DdlLine(ddl, sc)[2] = "INTEGER"
          /\ Contains(DdlLine(ddl, sc), <<"REFERENCES", "t", "(", "d", ")">>)

IsTableStatement(st) == st[1][1] = "CREATE TABLE"

\* CREATE [UNIQUE] INDEX idx_<table>_<column> ON <table>(<column>)
IndexText(word, table, column) ==
    <<<<word, q("idx_" \o table \o "_" \o column), "ON", q(table), "(", q(column), ")">>>>

\* C17: in the text jsonSchemaToSqlite returns no CREATE TABLE follows a
\* CREATE [UNIQUE] INDEX; a column with `$index: 'unique'` has a CREATE UNIQUE
\* INDEX statement, a column with `$index: true` a CREATE INDEX statement; and
\* no line of a CREATE TABLE block holds the word UNIQUE.
C17_IndexesAfterTables ==
    ("render" \in done /\ ddl.status = "ok") =>
        /\ \A i, j \in DOMAIN ddl.text :
              (i < j /\ ~IsTableStatement(ddl.text[i])) => ~IsTableStatement(ddl.text[j])
        /\ \A sc \in SchemaColumns(schema) :
              /\ (Has(sc.prop, "$index") /\ sc.prop["$index"] = JsStr("unique"))
                    => IndexText("CREATE UNIQUE INDEX", sc.table, sc.name) \in SeqSet(ddl.text)
              /\ (Has(sc.prop, "$index") /\ sc.prop["$index"] = JsBool(TRUE))
                    => IndexText("CREATE INDEX", sc.table, sc.name) \in SeqSet(ddl.text)
        /\ \A i \in DOMAIN ddl.text :
              IsTableStatement(ddl.text[i])
                  => \A k \in DOMAIN ddl.text[i] :
                        {"UNIQUE", "CREATE UNIQUE INDEX"} \cap SeqSet(ddl.text[i][k]) = {}

\* a table with a unique and a plain index was rendered: both tables first,
\* then the two index statements
C17_Witness ==
    /\ "render" \in done
    /\ ddl.status = "ok"
    /\ Len(ddl.text) = 4
    /\ IsTableStatement(ddl.text[2])
    /\ ddl.text[3] = IndexText("CREATE UNIQUE INDEX", "t", "c")
    /\ ddl.text[4] = IndexText("CREATE INDEX", "t", "d")

ValidationKeys ==
    {"default", "$default", "minimum", "maximum", "enum", "pattern", "maxLength",
     "multipleOf"}

\* C18: no line of the text jsonSchemaToSqlite returns holds a DEFAULT or a
\* CHECK clause, whatever keys the properties carry.
C18_NoDefaultNoCheck ==
    ("render" \in done /\ ddl.status = "ok") =>
        \A i \in DOMAIN ddl.text : \A k \in DOMAIN ddl.text[i] :
            {"DEFAULT", "CHECK"} \cap SeqSet(ddl.text[i][k]) = {}

\* a document with a column that carries default, minimum, maximum and
\* multipleOf and a column that carries $default, enum, pattern and maxLength
\* was rendered
C18_Witness ==
    /\ "render" \in done
    /\ ddl.status = "ok"
    /\ ValidationKeys \subseteq UNION {DOMAIN sc.prop : sc \in SchemaColumns(schema)}

\* the default expression of a column with exactly one DEFAULT, a call with
\* arguments
CallDefault(col) ==
    /\ Len(col.constraints) = 1
    /\ col.constraints[1].contype = "CONSTR_DEFAULT"
    /\ Has(col.constraints[1].raw_expr, "FuncCall")
    /\ Len(col.constraints[1].raw_expr.FuncCall.args) > 0

\* C19: two columns whose defaults call the same function with different
\* arguments get different `$default` texts from convert().
C19_DefaultKeepsArguments ==
    "convert" \in done =>
        \A tc1, tc2 \in ColumnsOf(ast) :
            (/\ CallDefault(tc1.col) /\ CallDefault(tc2.col)
             /\ tc1.col.constraints[1].raw_expr.FuncCall.funcname
                  = tc2.col.constraints[1].raw_expr.FuncCall.funcname
             /\ tc1.col.constraints[1].raw_expr.FuncCall.args
                  # tc2.col.constraints[1].raw_expr.FuncCall.args)
                => PropOf(schema, tc1)["$default"] # PropOf(schema, tc2)["$default"]

\* C20: the shared type table is never modified, and a document that the
\* process translated before is translated to the same schema, the same
\* SQLite text and the same rendering again, whatever came in between.
C20_CallsIndependent ==
    /\ typeTable = TYPE_MAP
    /\ \A r \in seen :
          r.ast = ast
              => /\ "convert" \in done => schema = r.schema
                 /\ "deparse" \in done => sqlite = r.sqlite
                 /\ "render" \in done => ddl = r.ddl

\* varchar was translated, then varchar(50), then varchar again: the third
\* schema has no maxLength
C20_Witness ==
    /\ calls = 3
    /\ done = {"convert", "deparse", "render"}
    /\ Cardinality(seen) = 2
    /\ \E r \in seen : r.ast = ast
    /\ \E r \in seen :
          Has(OGet(OGet(r.schema.properties, "t").properties, "c"), "maxLength")
    /\ ~Has(OGet(OGet(schema.properties, "t").properties, "c"), "maxLength")

\* the tables of a document whose column definitions all have a name and a
\* type, as indices of their statements; a table declared again later is
\* replaced by the later declaration
NamedTables(stmts) ==
    {i \in DOMAIN stmts :
        /\ Has(stmts[i], "CreateStmt")
        /\ \A j \in DOMAIN stmts[i].CreateStmt.tableElts :
              Has(stmts[i].CreateStmt.tableElts[j], "ColumnDef")
                  => WellFormed(stmts[i].CreateStmt.tableElts[j])
        /\ \A k \in DOMAIN stmts :
              (k > i /\ Has(stmts[k], "CreateStmt"))
                  => stmts[k].CreateStmt.relation.relname
                        # stmts[i].CreateStmt.relation.relname}

\* the names of the columns declared NOT NULL and not PRIMARY KEY, in
\* declaration order
NotNullNames(tableElts) ==
    LET cols == SelectSeq(tableElts, LAMBDA e :
                    /\ Has(e, "ColumnDef")
                    /\ HasConstraint(e.ColumnDef, "CONSTR_NOTNULL")
                    /\ ~HasConstraint(e.ColumnDef, "CONSTR_PRIMARY"))
    IN  [i \in DOMAIN cols |-> cols[i].ColumnDef.colname]

NoDuplicates(sq) == \A i, j \in DOMAIN sq : sq[i] = sq[j] => i = j

RECURSIVE ColumnsNamed(_)
ColumnsNamed(expr) ==
    IF Has(expr, "ColumnRef") THEN SeqSet(expr.ColumnRef.fields)
    ELSE IF Has(expr, "A_Expr")
    THEN ColumnsNamed(expr.A_Expr.lexpr) \cup ColumnsNamed(expr.A_Expr.rexpr)
    ELSE IF Has(expr, "List")
    THEN UNION {ColumnsNamed(expr.List.items[i]) : i \in DOMAIN expr.List.items}
    ELSE IF Has(expr, "BoolExpr")
    THEN UNION {ColumnsNamed(expr.BoolExpr.args[i]) : i \in DOMAIN expr.BoolExpr.args}
    ELSE {}

\* the columns declared with exactly one constraint, a CHECK, and a type
\* that is no enum: what their property holds besides the type comes from
\* analyzeCheck alone
CheckedColumns(stmts) ==
    {tc \in ColumnsOf(stmts) :
        /\ Len(tc.col.constraints) = 1
        /\ tc.col.constraints[1].contype = "CONSTR_CHECK"
        /\ Len(tc.col.typeName.names) = 2}
CheckOf(tc) == tc.col.constraints[1].raw_expr

RuleKeys == {"minimum", "maximum", "enum", "pattern"}

\* C22: analyzeCheck(expr, col) is null for every CHECK expression that names
\* a column other than col, so that convert() writes no minimum, maximum,
\* enum or pattern for it; `c >= 0 AND d <= 10` on column c yields no bound.
C22_MultiColumnOpaque ==
    "convert" \in done =>
        \A tc \in CheckedColumns(ast) :
            ColumnsNamed(CheckOf(tc)) \ {tc.col.colname} # {}
                => /\ analyzeCheck(CheckOf(tc), tc.col.colname) = Null
                   /\ DOMAIN PropOf(schema, tc) \cap RuleKeys = {}

\* expr is `col > k` or `col < k` with a numeric constant k
IsStrictBound(expr, col) ==
    /\ Has(expr, "A_Expr")
    /\ expr.A_Expr.kind = "AEXPR_OP"
    /\ expr.A_Expr.name \in {<<">">>, <<"<">>}
    /\ expr.A_Expr.lexpr = ColRef(col)
    /\ IsNum(extractConstValue(expr.A_Expr.rexpr))
BoundOf(expr) == extractConstValue(expr.A_Expr.rexpr).num

\* prop holds key with value v
Holds(prop, key, v) == Has(prop, key) /\ prop[key] = v

\* C23: convert() turns `col > k` into minimum k + 1 and `col < k` into
\* maximum k - 1 on an integer column, and on a column of a non-integer
\* numeric type it does not move the bound by one.
C23_StrictBoundShiftOnlyForIntegers ==
    "convert" \in done =>
        \A tc \in CheckedColumns(ast) :
            IsStrictBound(CheckOf(tc), tc.col.colname) =>
                LET prop == PropOf(schema, tc)
                    k == BoundOf(CheckOf(tc))
                    isMin == CheckOf(tc).A_Expr.name = <<">">>
                IN  /\ prop.type = "integer" =>
                          IF isMin THEN Holds(prop, "minimum", k + 1)
                          ELSE Holds(prop, "maximum", k - 1)
                    /\ prop.type = "number" =>
                          IF isMin THEN ~Holds(prop, "minimum", k + 1)
                          ELSE ~Holds(prop, "maximum", k - 1)

\* expr is `col IN (c1, ..., cn)` with constant items, or a disjunction of
\* `col = constant` on the one column
IsConstEquality(expr, col) ==
    /\ Has(expr, "A_Expr")
    /\ expr.A_Expr.kind = "AEXPR_OP"
    /\ expr.A_Expr.name = <<"=">>
    /\ expr.A_Expr.lexpr = ColRef(col)
    /\ Has(expr.A_Expr.rexpr, "A_Const")
IsMembership(expr, col) ==
    \/ /\ Has(expr, "A_Expr")
       /\ expr.A_Expr.kind = "AEXPR_IN"
       /\ expr.A_Expr.lexpr = ColRef(col)
       /\ \A i \in DOMAIN expr.A_Expr.rexpr.List.items :
             Has(expr.A_Expr.rexpr.List.items[i], "A_Const")
    \/ /\ Has(expr, "BoolExpr")
       /\ expr.BoolExpr.boolop = "OR_EXPR"
       /\ \A i \in DOMAIN expr.BoolExpr.args : IsConstEquality(expr.BoolExpr.args[i], col)

\* the constants of a membership expression, in source order
MembersOf(expr) ==
    IF Has(expr, "A_Expr")
    THEN [i \in DOMAIN expr.A_Expr.rexpr.List.items |->
             extractConstValue(expr.A_Expr.rexpr.List.items[i])]
    ELSE [i \in DOMAIN expr.BoolExpr.args |->
             extractConstValue(expr.BoolExpr.args[i].A_Expr.rexpr)]

\* C24: analyzeCheck(expr, col) gives an `enum` rule only for `col IN (...)`
\* with constant items or a disjunction of `col = constant` on that column,
\* and then the values are those constants in source order; any other IN list
\* or OR expression gives no rule, never a partial list of values.
C24_EnumOnlyFromWholeLists ==
    "convert" \in done =>
        \A tc \in CheckedColumns(ast) :
            LET rules == analyzeCheck(CheckOf(tc), tc.col.colname)
            IN  IF IsMembership(CheckOf(tc), tc.col.colname)
                THEN /\ rules = [enum |-> MembersOf(CheckOf(tc))]
                     /\ Holds(PropOf(schema, tc), "enum", MembersOf(CheckOf(tc)))
                ELSE /\ rules = Null \/ ~Has(rules, "enum")
                     /\ ~Has(PropOf(schema, tc), "enum")

\* the place of a clause in the fixed order: primary key, its AUTOINCREMENT
\* qualifier, not-null, the foreign-key reference, the synthesized CHECKs;
\* 0 for the tokens that open none of these clauses
ClauseRank(tok) ==
    CASE tok = "PRIMARY KEY" -> 1
      [] tok = "AUTOINCREMENT" -> 2
      [] tok = "NOT NULL" -> 3
      [] tok = "REFERENCES" -> 4
      [] tok = "CHECK" -> 5
      [] OTHER -> 0

InFixedOrder(line) ==
    \A i, j \in DOMAIN line :
        (i < j /\ ClauseRank(line[i]) > 0 /\ ClauseRank(line[j]) > 0)
            => ClauseRank(line[i]) <= ClauseRank(line[j])

\* C25: in a column's text the clauses stand in one fixed order, primary key
\* with its AUTOINCREMENT, then not-null, then the foreign-key reference, then
\* the synthesized CHECK clauses, in whatever order the source column wrote
\* its constraints.
C25_ClausesInFixedOrder ==
    "deparse" \in done =>
        \A tc \in SynthesizedOnly(ast) : InFixedOrder(LineIn(sqlite, tc))

\* the table-level FOREIGN KEY constraints of a document: [table, idx, node]
TableForeignKeys(stmts) ==
    UNION { { [table |-> stmts[i].CreateStmt.relation.relname, idx |-> j,
               node |-> stmts[i].CreateStmt.tableElts[j].Constraint] :
                j \in {e \in DOMAIN stmts[i].CreateStmt.tableElts :
                          /\ Has(stmts[i].CreateStmt.tableElts[e], "Constraint")
                          /\ stmts[i].CreateStmt.tableElts[e].Constraint.contype
                                = "CONSTR_FOREIGN"} } :
            i \in {k \in DOMAIN stmts : Has(stmts[k], "CreateStmt")} }

\* C26: a table-level FOREIGN KEY constraint is rendered as FOREIGN KEY
\* (cols) REFERENCES ..., its referencing columns kept, and an inline
\* REFERENCES constraint of a column is rendered without FOREIGN KEY.
C26_TableForeignKeyKeepsColumns ==
    "deparse" \in done =>
        /\ \A fk \in TableForeignKeys(ast) :
              LET line == LineIn(sqlite, fk)
              IN  /\ Len(line) > 3 + Len(fk.node.fk_attrs)
                  /\ SubSeq(line, 1, 2) = <<"FOREIGN KEY", "(">>
                  /\ \A k \in DOMAIN fk.node.fk_attrs : fk.node.fk_attrs[k] \in SeqSet(line)
                  /\ "REFERENCES" \in SeqSet(line)
        /\ \A tc \in ColumnsOf(ast) :
              HasConstraint(tc.col, "CONSTR_FOREIGN")
                  => /\ "REFERENCES" \in SeqSet(LineIn(sqlite, tc))
                     /\ "FOREIGN KEY" \notin SeqSet(LineIn(sqlite, tc))

\* the action a code stands for: 'a' and a missing code are NO ACTION
ActionName(code) ==
    CASE code = "c" -> "cascade"
      [] code = "n" -> "set null"
      [] code = "d" -> "set default"
      [] code = "r" -> "restrict"
      [] OTHER -> "no action"
CodeOf(constraint, field) == IF Has(constraint, field) THEN constraint[field] ELSE ""

\* the columns whose one constraint is REFERENCES table (column)
SoleForeignKey(stmts) ==
    {tc \in ColumnsOf(stmts) :
        /\ Len(tc.col.constraints) = 1
        /\ tc.col.constraints[1].contype = "CONSTR_FOREIGN"
        /\ Has(tc.col.constraints[1], "pk_attrs")}

\* the column node the Kysely translator built
KyselyColumn(out, tc) ==
    LET node == out.results[CHOOSE i \in DOMAIN out.results :
                                Has(out.results[i], "columns")
                                /\ out.results[i].table = tc.table]
    IN  node.columns[CHOOSE j \in DOMAIN node.columns :
                        node.columns[j].name = tc.col.colname]

\* the action each output states, NO ACTION when it states none
JsonAction(prop, key) == IF Has(prop, key) THEN prop[key] ELSE "no action"
SqliteAction(line, word) ==
    IF \E i \in DOMAIN line : line[i] = word
    THEN line[(CHOOSE i \in DOMAIN line : line[i] = word) + 1]
    ELSE "NO ACTION"
KyselyActionOf(col, key) ==
    IF Has(col, "references") /\ Has(col.references, key)
    THEN col.references[key] ELSE "no action"

\* C27: convert(), deparse() and the Kysely translate() give every foreign
\* key the same ON DELETE and ON UPDATE action: cascade for 'c', set null for
\* 'n', set default for 'd', restrict for 'r', and no action for 'a' or a
\* missing code; an action other than NO ACTION is stated in all three
\* outputs.
C27_ActionsNormalizedAlike ==
    {"convert", "deparse", "translate"} \subseteq done =>
        \A tc \in SoleForeignKey(ast) :
            LET c == tc.col.constraints[1]
                onDelete == ActionName(CodeOf(c, "fk_del_action"))
                onUpdate == ActionName(CodeOf(c, "fk_upd_action"))
            IN  /\ JsonAction(PropOf(schema, tc), "$onDelete") = onDelete
                /\ JsonAction(PropOf(schema, tc), "$onUpdate") = onUpdate
                /\ SqliteAction(LineIn(sqlite, tc), "ON DELETE") = toUpperCase(onDelete)
                /\ SqliteAction(LineIn(sqlite, tc), "ON UPDATE") = toUpperCase(onUpdate)
                /\ KyselyActionOf(KyselyColumn(kysely, tc), "onDelete") = onDelete
                /\ KyselyActionOf(KyselyColumn(kysely, tc), "onUpdate") = onUpdate

\* an inline constraint of one of the four kinds is applied to the node
Applied(col, constraint) ==
    CASE constraint.contype = "CONSTR_NOTNULL" -> col.notNull
      [] constraint.contype = "CONSTR_UNIQUE" -> col.unique
      [] constraint.contype = "CONSTR_DEFAULT" ->
            Has(col, "defaultTo") /\ col.defaultTo # Null
      [] constraint.contype = "CONSTR_FOREIGN" ->
            /\ Has(col, "references")
            /\ col.references.table = constraint.pktable.relname
            /\ col.references.column = constraint.pk_attrs[1]
      [] OTHER -> TRUE

\* C28: the column the Kysely translator emits carries every NOT NULL,
\* UNIQUE, DEFAULT and REFERENCES constraint of the source column, and a
\* serial column with PRIMARY KEY is a primary key with autoincrement besides.
C28_InlineConstraintsApplied ==
    "translate" \in done =>
        \A tc \in ColumnsOf(ast) :
            LET col == KyselyColumn(kysely, tc)
            IN  /\ \A i \in DOMAIN tc.col.constraints : Applied(col, tc.col.constraints[i])
                /\ (KyselyIsSerialType(Last(tc.col.typeName.names)) /\ HasPrimary(tc.col))
                      => col.primaryKey /\ col.autoIncrement


\* a step in which the translation of call g settles
Settles(g) == g \in inflight /\ inflight' = inflight \ {g}
\* an entry holding an outcome: a result or an error, never both
IsOutcome(entry) == (entry.result # "") # (entry.error # "")

\* C29: a generation started on tab T writes its result or its error into
\* T's entry of tabStates and into no other entry, whatever tab is selected
\* when its translation settles, and no entry ever holds both a result and
\* an error.
C29_OutcomeInStartingTabOnly ==
    /\ [](\A t \in Tabs : tabStates[t].result = "" \/ tabStates[t].error = "")
    /\ [][\A g \in inflight :
            Settles(g) =>
                /\ IsOutcome(tabStates'[g.tab])
                /\ \A t \in Tabs \ {g.tab} : tabStates'[t] = tabStates[t]]_vars
\* a translation started on one tab has settled while another tab was
\* selected: its result is in the tab it started on, the selected tab is
\* still empty
C29_Witness ==
    /\ settled.status = "settled"
    /\ settled.tab # settled.selected
    /\ tab = settled.selected
    /\ tabStates[settled.tab].result # ""
    /\ tabStates[tab] = EmptyTabState
    /\ inflight = {}

\* C30: loading is true exactly while a generation is in flight, and there
\* is never more than one in flight: a click on Generate sets it, the
\* button is disabled while it is set, and it is false again when the
\* translation has settled, with a result or with an error.
C30_LoadingWhileInFlight ==
    /\ loading <=> inflight # {}
    /\ \A g, h \in inflight : g = h
\* a translation has thrown, loading went back to false, and the next
\* generation, on another tab, is in flight with loading set
C30_Witness ==
    /\ settled.status = "settled"
    /\ tabStates[settled.tab].error # ""
    /\ loading
    /\ \E g \in inflight : g.tab # settled.tab

====
